---- MODULE Spec2Model ----
(***************************************************************************)
(* 10-card stud: the hand evaluator (lib/poker.ts) and the round state     *)
(* machine (lib/game.ts) of ihou-ev/10cardstad.                            *)
(***************************************************************************)
EXTENDS Integers, Sequences, FiniteSets, TLC

(***************************************************************************)
(* Cards (lib/cards.ts).  A card is identified by its index 0..51 in the   *)
(* deck createDeck() builds; its rank is 2..14 (14 = ace) and its suit one *)
(* of four.                                                                *)
(***************************************************************************)
DeckSize == 52

CardIds == 0 .. (DeckSize - 1)

CardRank(c) == 2 + (c % 13)

CardSuit(c) == c \div 13

createDeck == [i \in 1 .. DeckSize |-> i - 1]

(***************************************************************************)
(* Small sequence helpers standing for the array methods the code uses.    *)
(***************************************************************************)
Range(s) == {s[i] : i \in DOMAIN s}

\* Array.prototype.slice(from, to) with 0-based, end-exclusive indices.
Slice(s, from, to) ==
    LET hi == IF to > Len(s) THEN Len(s) ELSE to
    IN  IF from >= hi THEN <<>> ELSE SubSeq(s, from + 1, hi)

\* Faulty variant of Includes: every id passes for a member
Anyone(s, x) == TRUE

\* Array.prototype.includes
Includes(s, x) == \E i \in DOMAIN s : s[i] = x

(***************************************************************************)
(* Hand evaluator (lib/poker.ts).                                          *)
(***************************************************************************)
HAND_RANK_VALUES ==
    ("straight-flush" :> 8) @@ ("four-of-a-kind" :> 7) @@ ("full-house" :> 6) @@
    ("flush" :> 5) @@ ("straight" :> 4) @@ ("three-of-a-kind" :> 3) @@
    ("two-pair" :> 2) @@ ("one-pair" :> 1) @@ ("high-card" :> 0)

\* The ranks of a hand, in the order of its cards
RanksOf(cards) == [i \in DOMAIN cards |-> CardRank(cards[i])] \o <<>>

\* Map<Rank, number>: the entries <<rank, count>>, in the order a Map keeps
\* them (first insertion)
CountRank(counts, r) ==
    IF \E k \in DOMAIN counts : counts[k][1] = r
    THEN LET k == CHOOSE k \in DOMAIN counts : counts[k][1] = r
         IN  [counts EXCEPT ![k] = <<r, counts[k][2] + 1>>]
    ELSE Append(counts, <<r, 1>>)

RECURSIVE RankCountsUpTo(_, _)
RankCountsUpTo(cards, n) ==
    IF n = 0 THEN <<>>
    ELSE CountRank(RankCountsUpTo(cards, n - 1), CardRank(cards[n]))

getRankCounts(cards) == RankCountsUpTo(cards, Len(cards))

isFlush(cards) == \A i \in DOMAIN cards : CardSuit(cards[i]) = CardSuit(cards[1])

\* ranks.sort((a, b) => a - b): insertion into an ascending sequence
RECURSIVE InsertAsc(_, _)
InsertAsc(sorted, v) ==
    IF sorted = <<>> THEN <<v>>
    ELSE IF Head(sorted) < v THEN <<Head(sorted)>> \o InsertAsc(Tail(sorted), v)
         ELSE <<v>> \o sorted

RECURSIVE SortAsc(_)
SortAsc(xs) == IF xs = <<>> THEN <<>> ELSE InsertAsc(SortAsc(Tail(xs)), Head(xs))

\* ranks.sort((a, b) => b - a): insertion into a descending sequence
RECURSIVE InsertDesc(_, _)
InsertDesc(sorted, v) ==
    IF sorted = <<>> THEN <<v>>
    ELSE IF Head(sorted) > v THEN <<Head(sorted)>> \o InsertDesc(Tail(sorted), v)
         ELSE <<v>> \o sorted

RECURSIVE SortDesc(_)
SortDesc(xs) == IF xs = <<>> THEN <<>> ELSE InsertDesc(SortDesc(Tail(xs)), Head(xs))

\* Faulty variant of isStraight: without the case of ace, 2, 3, 4, 5
ConsecutiveOnly(cards) ==
    LET ranks == SortAsc(RanksOf(cards))
    IN  IF \E i \in 2 .. Len(ranks) : ranks[i] # ranks[i - 1] + 1
        THEN [isStraight |-> FALSE, highCard |-> 0]
        ELSE [isStraight |-> TRUE, highCard |-> ranks[5]]

isStraight(cards) ==
    LET ranks == SortAsc(RanksOf(cards))
    IN  IF ranks = <<2, 3, 4, 5, 14>>
        THEN [isStraight |-> TRUE, highCard |-> 5]
        ELSE IF \E i \in 2 .. Len(ranks) : ranks[i] # ranks[i - 1] + 1
             THEN [isStraight |-> FALSE, highCard |-> 0]
             ELSE [isStraight |-> TRUE, highCard |-> ranks[5]]

(***************************************************************************)
(* calculateStrength returns the number                                    *)
(*     HAND_RANK_VALUES[handRank] * 10000000000 + SUM kickers[i] * 15^(4-i)*)
(* The kicker sum is below 15^5 < 10000000000, so the number is kept here  *)
(* as the pair (base, kick) it decomposes into uniquely, and compared as   *)
(* the number is (StrengthLess);  the product itself exceeds the integers  *)
(* of the model checker.                                                   *)
(***************************************************************************)
\* Faulty variant of Pow15: the kickers weighted as decimal digits
Pow10(e) == CASE e = 0 -> 1 [] e = 1 -> 10 [] e = 2 -> 100 [] e = 3 -> 1000 [] e = 4 -> 10000

Pow15(e) == CASE e = 0 -> 1 [] e = 1 -> 15 [] e = 2 -> 225 [] e = 3 -> 3375 [] e = 4 -> 50625

RECURSIVE KickerSum(_, _)
KickerSum(kickers, i) ==
    IF i > Len(kickers) \/ i > 5 THEN 0
    ELSE kickers[i] * Pow15(5 - i) + KickerSum(kickers, i + 1)

calculateStrength(handRank, kickers) ==
    [base |-> HAND_RANK_VALUES[handRank], kick |-> KickerSum(kickers, 1)]

StrengthLess(a, b) == a.base < b.base \/ (a.base = b.base /\ a.kick < b.kick)

HandResult(handRank, cards, kickers) ==
    [rank |-> handRank, cards |-> cards, kickers |-> kickers,
     strength |-> calculateStrength(handRank, kickers)]

\* Array.from(rankCounts.entries()).sort(count desc, then rank desc)
RECURSIVE InsertCount(_, _)
InsertCount(sorted, e) ==
    IF sorted = <<>> THEN <<e>>
    ELSE LET h == Head(sorted)
         IN  IF h[2] > e[2] \/ (h[2] = e[2] /\ h[1] > e[1])
             THEN <<h>> \o InsertCount(Tail(sorted), e)
             ELSE <<e>> \o sorted

RECURSIVE SortedCounts(_)
SortedCounts(entries) ==
    IF entries = <<>> THEN <<>>
    ELSE InsertCount(SortedCounts(Tail(entries)), Head(entries))

Max2(a, b) == IF a > b THEN a ELSE b

Min2(a, b) == IF a < b THEN a ELSE b

evaluateHand(cards) ==
    LET Classify(counts, flush, straight, allRanksDesc) ==
          IF flush /\ straight.isStraight
          THEN HandResult("straight-flush", cards, <<straight.highCard>>)
        ELSE IF counts[1][2] = 4
          THEN HandResult("four-of-a-kind", cards, <<counts[1][1], counts[2][1]>>)
        ELSE IF counts[1][2] = 3 /\ counts[2][2] = 2
          THEN HandResult("full-house", cards, <<counts[1][1], counts[2][1]>>)
        ELSE IF flush
          THEN HandResult("flush", cards, allRanksDesc)
        ELSE IF straight.isStraight
          THEN HandResult("straight", cards, <<straight.highCard>>)
        ELSE IF counts[1][2] = 3
          THEN HandResult("three-of-a-kind", cards,
                          <<counts[1][1], counts[2][1], counts[3][1]>>)
        ELSE IF counts[1][2] = 2 /\ counts[2][2] = 2
          THEN HandResult("two-pair", cards,
                          <<Max2(counts[1][1], counts[2][1]),
                            Min2(counts[1][1], counts[2][1]), counts[3][1]>>)
        ELSE IF counts[1][2] = 2
          THEN HandResult("one-pair", cards,
                          <<counts[1][1], counts[2][1], counts[3][1], counts[4][1]>>)
        ELSE HandResult("high-card", cards, allRanksDesc)
    IN  Classify(SortedCounts(getRankCounts(cards)), isFlush(cards),
                 isStraight(cards), SortDesc(RanksOf(cards)))

\* combinations(array, k): the index tuples in the order backtrack() pushes them
RECURSIVE backtrack(_, _, _, _)
backtrack(n, k, start, current) ==
    IF Len(current) = k THEN <<current>>
    ELSE IF start > n THEN <<>>
    ELSE backtrack(n, k, start + 1, Append(current, start))
         \o backtrack(n, k, start + 1, current)

\* combinations(cards, 5) for cards.length = 5 .. 10, as index tuples
combinations5 ==
    <<backtrack(5, 5, 1, <<>>), backtrack(6, 5, 1, <<>>), backtrack(7, 5, 1, <<>>),
      backtrack(8, 5, 1, <<>>), backtrack(9, 5, 1, <<>>), backtrack(10, 5, 1, <<>>)>>

combinations(n) == combinations5[n - 4]

\* Faulty variant of BestOf: the first combination is returned
FirstOf(cards, combos) ==
    evaluateHand(<<cards[combos[1][1]], cards[combos[1][2]], cards[combos[1][3]],
                   cards[combos[1][4]], cards[combos[1][5]]>>)

\* The loop of findBestHand: bestHand ends as the first combination, in the
\* order of combinations(), whose strength no other combination exceeds.
BestOf(cards, combos) ==
    LET Best(hands) ==
          hands[CHOOSE i \in 1 .. Len(combos) :
                    /\ \A j \in 1 .. (i - 1) :
                          StrengthLess(hands[j].strength, hands[i].strength)
                    /\ \A j \in (i + 1) .. Len(combos) :
                          ~StrengthLess(hands[i].strength, hands[j].strength)]
    IN  Best([i \in 1 .. Len(combos) |->
                evaluateHand(<<cards[combos[i][1]], cards[combos[i][2]],
                               cards[combos[i][3]], cards[combos[i][4]],
                               cards[combos[i][5]]>>)] \o <<>>)

findBestHand(cards) ==
    IF Len(cards) = 5 THEN evaluateHand(cards)
    ELSE BestOf(cards, combinations(Len(cards)))

\* A sequence with the elements of the function f on 1..n, each computed once
ArrayOf(f) == f \o <<>>

(***************************************************************************)
(* Round state machine (lib/game.ts).                                      *)
(***************************************************************************)
\* Faulty variant of DIFFICULTY_CONFIGS: hard with a sixth door card and all
\* five hole cards, nightmare with the door cards of hard less its hole cards
ElevenCards ==
    [normal    |-> [holeCards |-> 5, doorCards |-> 5],
     hard      |-> [holeCards |-> 5, doorCards |-> 6],
     hell      |-> [holeCards |-> 2, doorCards |-> 8],
     nightmare |-> [holeCards |-> 0, doorCards |-> 4]]

DIFFICULTY_CONFIGS ==
    [normal    |-> [holeCards |-> 5, doorCards |-> 5],
     hard      |-> [holeCards |-> 4, doorCards |-> 6],
     hell      |-> [holeCards |-> 2, doorCards |-> 8],
     nightmare |-> [holeCards |-> 0, doorCards |-> 5]]

NULL == "null"

getRevealedCards(player) == player.doorCards \o player.revealedHoleCards

getAllCards(player) == player.doorCards \o player.revealedHoleCards \o player.holeCards

\* Faulty variant of getCurrentStrength: the hidden hole cards are counted too
PeekingStrength(player) == findBestHand(getAllCards(player))

getCurrentStrength(player) == findBestHand(getRevealedCards(player))

getFinalStrength(player) == findBestHand(getAllCards(player))

\* The seat's dealing configuration: seat 0 plays the chosen difficulty
SeatConfig(i, difficulty) ==
    IF i = 0 THEN DIFFICULTY_CONFIGS[difficulty] ELSE DIFFICULTY_CONFIGS["normal"]

\* Faulty variant of CardIndexAt: every seat is taken to get ten cards
TenPerSeat(i, difficulty) == i * 10

\* cardIndex when the loop of initializeGame reaches seat i
RECURSIVE CardIndexAt(_, _)
CardIndexAt(i, difficulty) ==
    IF i = 0 THEN 0
    ELSE CardIndexAt(i - 1, difficulty)
         + SeatConfig(i - 1, difficulty).doorCards
         + SeatConfig(i - 1, difficulty).holeCards

initializeGame(playerNames, difficulty, deck) ==
    LET playerCount == Len(playerNames)
        players ==
            ArrayOf([k \in 1 .. playerCount |->
                LET i == k - 1
                    config == SeatConfig(i, difficulty)
                    cardIndex == CardIndexAt(i, difficulty)
                IN  [id |-> i,
                     name |-> playerNames[k],
                     doorCards |-> Slice(deck, cardIndex, cardIndex + config.doorCards),
                     holeCards |-> Slice(deck, cardIndex + config.doorCards,
                                         cardIndex + config.doorCards + config.holeCards),
                     revealedHoleCards |-> <<>>]])
    IN  [players |-> players,
         deadCards |-> Slice(deck, CardIndexAt(playerCount, difficulty), Len(deck)),
         phase |-> "revealing",
         currentRound |-> 0,
         revealHistory |-> <<>>,
         winner |-> NULL,
         waitingForPlayers |-> <<>>]

\* Faulty variant of MinStrength and of MaxStrength: the strength of the first
\* entry, whatever the others are
FirstStrength(strengths) == strengths[1].strength.strength

\* The least of the strengths of a non-empty array of {player, strength}
MinStrength(strengths) ==
    CHOOSE m \in {strengths[i].strength.strength : i \in DOMAIN strengths} :
        \A i \in DOMAIN strengths : ~StrengthLess(strengths[i].strength.strength, m)

\* The greatest of the strengths of a non-empty array of {player, strength}
MaxStrength(strengths) ==
    CHOOSE m \in {strengths[i].strength.strength : i \in DOMAIN strengths} :
        \A i \in DOMAIN strengths : ~StrengthLess(m, strengths[i].strength.strength)

\* strengths.filter((s) => s.strength.strength === strength).map((s) => s.player)
PlayersWithStrength(strengths, strength) ==
    LET Is(s) == s.strength.strength = strength
        Players(found) == ArrayOf([i \in 1 .. Len(found) |-> found[i].player])
    IN  Players(SelectSeq(strengths, Is))

\* Faulty variant of HasHoleCards: a seat with no hole card left is kept
Seated(p) == TRUE

\* (p) => p.holeCards.length > 0
HasHoleCards(p) == Len(p.holeCards) > 0

findWeakestPlayers(players) ==
    LET Weakest(playersWithHoleCards) ==
          IF Len(playersWithHoleCards) = 0 THEN <<>>
          ELSE LET Min(strengths) ==
                     PlayersWithStrength(strengths, MinStrength(strengths))
               IN  Min(ArrayOf([i \in 1 .. Len(playersWithHoleCards) |->
                          [player |-> playersWithHoleCards[i],
                           strength |-> getCurrentStrength(playersWithHoleCards[i])]]))
    IN  Weakest(SelectSeq(players, HasHoleCards))

\* Faulty variant of startRevealRound: the guard on the phase is missing
StartAnyPhase(state) ==
    LET Round(weakestPlayers) ==
          IF Len(weakestPlayers) = 0
          THEN [state EXCEPT !.phase = "showdown", !.waitingForPlayers = <<>>]
          ELSE [state EXCEPT !.waitingForPlayers =
                   ArrayOf([i \in 1 .. Len(weakestPlayers) |-> weakestPlayers[i].id])]
    IN  Round(findWeakestPlayers(state.players))

\* Faulty variant of startRevealRound: the weakest players are added to the
\* players waited for instead of replacing them
StartAppending(state) ==
    IF state.phase # "revealing" THEN state
    ELSE LET Round(weakestPlayers) ==
               IF Len(weakestPlayers) = 0
               THEN [state EXCEPT !.phase = "showdown", !.waitingForPlayers = <<>>]
               ELSE [state EXCEPT !.waitingForPlayers = state.waitingForPlayers \o
                        ArrayOf([i \in 1 .. Len(weakestPlayers) |-> weakestPlayers[i].id])]
         IN  Round(findWeakestPlayers(state.players))

startRevealRound(state) ==
    IF state.phase # "revealing" THEN state
    ELSE LET Round(weakestPlayers) ==
               IF Len(weakestPlayers) = 0
               THEN [state EXCEPT !.phase = "showdown", !.waitingForPlayers = <<>>]
               ELSE [state EXCEPT !.waitingForPlayers =
                        ArrayOf([i \in 1 .. Len(weakestPlayers) |-> weakestPlayers[i].id])]
         IN  Round(findWeakestPlayers(state.players))

\* Faulty variants of Without: nothing is removed; everything is removed
KeepAll(array, x) == array

Emptied(array, x) == <<>>

\* Faulty variant of AllRevealed: the last hole card is never noticed
NeverRevealed(players) == FALSE

\* array.filter((e) => e !== x)
Without(array, x) == SelectSeq(array, LAMBDA e : e # x)

\* Faulty variant of AllRevealed: every reveal is taken for the last one
AlwaysRevealed(players) == TRUE

\* newPlayers.every((p) => p.holeCards.length === 0)
AllRevealed(players) == \A k \in DOMAIN players : Len(players[k].holeCards) = 0

\* ids.findIndex((id) => id === x), 1-based here; 0 stands for -1
FindIndex(ids, x) ==
    IF \E i \in DOMAIN ids : ids[i] = x
    THEN CHOOSE i \in DOMAIN ids : ids[i] = x /\ \A j \in 1 .. (i - 1) : ids[j] # x
    ELSE 0

revealSelectedCard(state, playerId, cardId) ==
    IF state.phase # "revealing" THEN state
    ELSE IF ~Includes(state.waitingForPlayers, playerId) THEN state
    ELSE
      LET playerIndex ==
              FindIndex(ArrayOf([k \in DOMAIN state.players |-> state.players[k].id]),
                        playerId)
      IN
      IF playerIndex = 0 THEN state
      ELSE
        LET player == state.players[playerIndex]
            cardIndex == FindIndex(player.holeCards, cardId)
        IN
        IF cardIndex = 0 THEN state
        ELSE
          LET card == player.holeCards[cardIndex]
              newHoleCards == Without(player.holeCards, cardId)
              newRevealedHoleCards == Append(player.revealedHoleCards, card)
              newPlayers == [state.players EXCEPT ![playerIndex] =
                                [player EXCEPT !.holeCards = newHoleCards,
                                               !.revealedHoleCards = newRevealedHoleCards]]
              newWaitingForPlayers == Without(state.waitingForPlayers, playerId)
              existingEvent == \E k \in DOMAIN state.revealHistory :
                                  state.revealHistory[k].round = state.currentRound
              newRevealHistory ==
                  IF existingEvent
                  THEN ArrayOf([k \in DOMAIN state.revealHistory |->
                          LET e == state.revealHistory[k]
                          IN  IF e.round = state.currentRound
                              THEN [e EXCEPT
                                      !.playerIds = Append(e.playerIds, playerId),
                                      !.cards = Append(e.cards,
                                                  [playerId |-> playerId, card |-> card])]
                              ELSE e])
                  ELSE Append(state.revealHistory,
                              [round |-> state.currentRound,
                               playerIds |-> <<playerId>>,
                               cards |-> <<[playerId |-> playerId, card |-> card]>>])
          IN
          IF Len(newWaitingForPlayers) = 0
          THEN LET allRevealed == AllRevealed(newPlayers)
               IN  [state EXCEPT !.players = newPlayers,
                                 !.revealHistory = newRevealHistory,
                                 !.waitingForPlayers = <<>>,
                                 !.currentRound = state.currentRound + 1,
                                 !.phase = IF allRevealed THEN "showdown" ELSE "revealing"]
          ELSE [state EXCEPT !.players = newPlayers,
                             !.revealHistory = newRevealHistory,
                             !.waitingForPlayers = newWaitingForPlayers]

processRevealRound(state) ==
    IF state.phase # "revealing" THEN state
    ELSE
      LET Round(weakestPlayers) ==
            LET IsWeakest(player) == \E k \in DOMAIN weakestPlayers :
                                         weakestPlayers[k].id = player.id
                Reveals(player) == IsWeakest(player) /\ Len(player.holeCards) > 0
                newPlayers ==
                    ArrayOf([k \in DOMAIN state.players |->
                        LET player == state.players[k]
                        IN  IF Reveals(player)
                            THEN [player EXCEPT
                                    !.holeCards = Tail(player.holeCards),
                                    !.revealedHoleCards =
                                        Append(player.revealedHoleCards,
                                               player.holeCards[1])]
                            ELSE player])
                revealing == SelectSeq(state.players, Reveals)
                revealedCards ==
                    ArrayOf([k \in 1 .. Len(revealing) |->
                        [playerId |-> revealing[k].id,
                         card |-> revealing[k].holeCards[1]]])
                event == [round |-> state.currentRound,
                          playerIds |-> ArrayOf([k \in 1 .. Len(weakestPlayers) |->
                                                    weakestPlayers[k].id]),
                          cards |-> revealedCards]
                allRevealed == AllRevealed(newPlayers)
            IN
            IF Len(weakestPlayers) = 0
            THEN [state EXCEPT !.phase = "showdown"]
            ELSE [state EXCEPT !.players = newPlayers,
                               !.currentRound = state.currentRound + 1,
                               !.revealHistory = Append(state.revealHistory, event),
                               !.phase = IF allRevealed THEN "showdown" ELSE "revealing",
                               !.waitingForPlayers = <<>>]
      IN  Round(findWeakestPlayers(state.players))

\* Faulty variant of determineWinner: the guard on the phase is missing
DetermineAnyPhase(state) ==
    LET Max(finalStrengths) ==
          PlayersWithStrength(finalStrengths, MaxStrength(finalStrengths))
        winners == Max(ArrayOf([k \in DOMAIN state.players |->
                           [player |-> state.players[k],
                            strength |-> getFinalStrength(state.players[k])]]))
    IN  [state EXCEPT !.phase = "finished", !.winner = winners]

determineWinner(state) ==
    IF state.phase # "showdown" THEN state
    ELSE
      LET Max(finalStrengths) ==
            PlayersWithStrength(finalStrengths, MaxStrength(finalStrengths))
          winners == Max(ArrayOf([k \in DOMAIN state.players |->
                             [player |-> state.players[k],
                              strength |-> getFinalStrength(state.players[k])]]))
      IN  [state EXCEPT !.phase = "finished", !.winner = winners]

(***************************************************************************)
(* The games played.  shuffleDeck draws a permutation at random; the model *)
(* plays the permutations of Shuffles, one per game.  A game is the        *)
(* arguments of initializeGame and the seats whose card is chosen by a     *)
(* person: every other seat reveals holeCards[0], as the bots of the local *)
(* mode and the auto-play of an offline seat do.                           *)
(***************************************************************************)
Shuffles ==
    <<<<4, 20, 40, 24, 5, 28, 21, 29, 10, 3, 7, 6, 34,
        35, 50, 41, 46, 14, 31, 44, 43, 27, 0, 1, 9, 8,
        45, 33, 18, 26, 17, 42, 11, 37, 39, 25, 22, 16, 38,
        51, 19, 23, 49, 15, 30, 48, 2, 36, 12, 13, 47, 32>>,
      <<0, 37, 22, 24, 26, 10, 12, 50, 42, 27, 1, 34, 4,
        29, 7, 43, 48, 35, 32, 28, 41, 46, 33, 38, 19, 49,
        3, 9, 45, 40, 30, 51, 31, 15, 47, 11, 14, 17, 5,
        18, 6, 16, 25, 20, 2, 39, 13, 8, 44, 36, 21, 23>>,
      <<9, 22, 37, 42, 48, 46, 23, 33, 20, 8, 0, 50, 17,
        28, 12, 24, 43, 14, 26, 18, 6, 39, 27, 31, 2, 32,
        13, 1, 19, 49, 11, 41, 45, 30, 5, 16, 51, 25, 15,
        36, 34, 47, 10, 35, 40, 3, 38, 44, 21, 29, 7, 4>>,
      <<43, 15, 19, 21, 51, 27, 6, 7, 37, 9, 1, 31, 25,
        33, 32, 50, 34, 44, 49, 28, 47, 22, 26, 17, 23, 36,
        13, 8, 2, 42, 0, 14, 40, 48, 46, 12, 45, 35, 38,
        18, 24, 41, 16, 30, 5, 3, 10, 11, 39, 4, 29, 20>>,
      <<20, 19, 18, 41, 0, 37, 7, 4, 39, 16, 8, 51, 5,
        49, 3, 12, 26, 14, 1, 13, 46, 42, 17, 22, 31, 40,
        29, 25, 45, 34, 10, 47, 50, 30, 28, 43, 6, 44, 38,
        32, 2, 24, 35, 27, 23, 9, 48, 21, 11, 33, 15, 36>>,
      <<0, 22, 32, 20, 38, 19, 49, 47, 51, 10, 46, 18, 41,
        43, 17, 11, 40, 16, 15, 3, 21, 12, 27, 23, 29, 9,
        5, 42, 35, 50, 26, 14, 48, 8, 4, 25, 30, 34, 36,
        24, 28, 31, 2, 44, 45, 7, 33, 1, 13, 6, 37, 39>>,
      <<0, 15, 4, 19, 8, 28, 39, 47, 9, 10, 26, 41, 30,
        45, 34, 43, 32, 33, 35, 36, 12, 25, 1, 16, 5, 13,
        2, 17, 6, 21, 3, 7, 11, 14, 18, 20, 22, 23, 24,
        27, 29, 31, 37, 38, 40, 42, 44, 46, 48, 49, 50, 51>>,
      <<12, 25, 1, 16, 5, 13, 2, 17, 6, 21, 11, 24, 3,
        18, 7, 43, 32, 33, 35, 36, 0, 15, 4, 19, 8, 28,
        39, 47, 9, 10, 14, 20, 22, 23, 26, 27, 29, 30, 31,
        34, 37, 38, 40, 41, 42, 44, 45, 46, 48, 49, 50, 51>>,
      <<0, 15, 4, 19, 8, 28, 39, 47, 9, 10, 26, 41, 30,
        45, 34, 43, 32, 33, 35, 36, 12, 25, 1, 16, 5, 13,
        2, 17, 6, 21, 3, 7, 11, 14, 18, 20, 22, 23, 24,
        27, 29, 31, 37, 38, 40, 42, 44, 46, 48, 49, 50, 51>>,
      <<22, 37, 40, 47, 42, 16, 1, 32, 3, 18, 25, 46, 6,
        28, 34, 7, 38, 44, 48, 24, 5, 14, 8, 21, 9, 45,
        12, 11, 19, 35, 49, 26, 39, 23, 15, 4, 20, 43, 33,
        50, 10, 41, 17, 31, 29, 13, 0, 51, 30, 27, 2, 36>>,
      <<12, 25, 1, 16, 5, 13, 2, 17, 6, 21, 26, 41, 30,
        45, 34, 43, 32, 33, 35, 36, 0, 15, 4, 19, 8, 28,
        39, 47, 9, 10, 3, 7, 11, 14, 18, 20, 22, 23, 24,
        27, 29, 31, 37, 38, 40, 42, 44, 46, 48, 49, 50, 51>>>>

shuffleDeck(deck, k) == ArrayOf([i \in 1 .. Len(deck) |-> deck[Shuffles[k][i] + 1]])

Names == <<"P0", "P1", "P2", "P3", "P4">>

GameTable ==
    <<[playerCount |-> 3, difficulty |-> "hell",      humans |-> {0}],
      [playerCount |-> 4, difficulty |-> "hard",      humans |-> {0}],
      [playerCount |-> 5, difficulty |-> "nightmare", humans |-> {1}],
      [playerCount |-> 2, difficulty |-> "normal",    humans |-> {}],
      [playerCount |-> 3, difficulty |-> "hell",      humans |-> {0}],
      [playerCount |-> 4, difficulty |-> "hell",      humans |-> {0}],
      [playerCount |-> 3, difficulty |-> "normal",    humans |-> {0, 1}],
      [playerCount |-> 3, difficulty |-> "normal",    humans |-> {0, 1}],
      [playerCount |-> 3, difficulty |-> "normal",    humans |-> {0}],
      [playerCount |-> 3, difficulty |-> "normal",    humans |-> {0, 1, 2}],
      [playerCount |-> 3, difficulty |-> "normal",    humans |-> {0, 1}]>>

\* Bounds of the model: the games of GameTable played, and how many of its
\* first hole cards a person chooses among.
NumGames == 5

MaxPick == 2

\* How many other ways of hiding the hidden cards a state is compared with
MaxRehide == 2

NewGame(g) ==
    initializeGame(SubSeq(Names, 1, GameTable[g].playerCount),
                   GameTable[g].difficulty,
                   shuffleDeck(createDeck, g))

VARIABLES
    state,        \* the GameState: of the local game, or column game_state of the room played
    game,         \* the game being played: an index of GameTable
    lastOp,       \* the last function applied to the GameState, and whether it changed it
    game_rooms,   \* table game_rooms: room id -> [host_id, status], game_state apart
    room_players, \* table room_players: rows [room_id, player_id, slot, is_online]
    clients,      \* the App component of each browser: its React state
    requests,     \* the calls of lib/online-game.ts in progress
    calls,        \* how many calls of each function that writes a GameState were made
    channel       \* change notifications on their way to each subscribed client

\* The tables, clients and messages of the online mode
online == <<game_rooms, room_players, clients, requests, calls, channel>>

vars == <<state, game, lastOp, online>>

PlayerIds == {state.players[k].id : k \in DOMAIN state.players}

PlayerById(id) == state.players[id + 1]

\* The cardId arguments tried for a seat: the hole cards it may choose, and
\* its first door card, which is never a hole card.
CardInputs(playerId) ==
    LET player == PlayerById(playerId)
        n == IF playerId \in GameTable[game].humans THEN MaxPick ELSE 1
    IN  Range(Slice(player.holeCards, 0, n)) \cup {player.doorCards[1]}

Op(name, new) == [op |-> name, changed |-> new # state]

Init ==
    /\ game \in 1 .. NumGames
    /\ state = NewGame(game)
    /\ lastOp = [op |-> "initializeGame", changed |-> TRUE]
    /\ game_rooms = <<>>
    /\ room_players = {}
    /\ clients = <<>>
    /\ requests = {}
    /\ calls = [revealCardOnline |-> 0, autoPlayForOfflinePlayers |-> 0]
    /\ channel = <<>>

StartRevealRound ==
    /\ state' = startRevealRound(state)
    /\ lastOp' = Op("startRevealRound", state')
    /\ UNCHANGED <<game, online>>

RevealSelectedCard ==
    \E playerId \in PlayerIds :
      \E cardId \in CardInputs(playerId) :
        /\ state' = revealSelectedCard(state, playerId, cardId)
        /\ lastOp' = Op("revealSelectedCard", state')
        /\ UNCHANGED <<game, online>>

ProcessRevealRound ==
    /\ state' = processRevealRound(state)
    /\ lastOp' = Op("processRevealRound", state')
    /\ UNCHANGED <<game, online>>

DetermineWinner ==
    /\ state' = determineWinner(state)
    /\ lastOp' = Op("determineWinner", state')
    /\ UNCHANGED <<game, online>>

Next ==
    \/ StartRevealRound
    \/ RevealSelectedCard
    \/ ProcessRevealRound
    \/ DetermineWinner

Spec == Init /\ [][Next]_vars

(***************************************************************************)
(* A game played with fairness.  The callers of lib/game.ts start a round  *)
(* when the phase is revealing and no seat is waiting, have a waiting seat *)
(* reveal one of its cards, and determine the winner at showdown: such a   *)
(* call is eventually made in a state that keeps asking for it.            *)
(* Made(name) is a step of a call that changed the game state.  The        *)
(* conditions on startRevealRound and determineWinner name the states that *)
(* ask for the call;  CallsPossible states that the call then changes the  *)
(* game state, so that the conditions ask for steps of Next only.          *)
(***************************************************************************)
Made(name) == lastOp' = [op |-> name, changed |-> TRUE]

RoundToStart == state.phase = "revealing" /\ state.waitingForPlayers = <<>>

LiveSpec ==
    /\ Spec
    /\ WF_lastOp(RoundToStart /\ Made("startRevealRound"))
    /\ WF_vars(Made("revealSelectedCard") /\ RevealSelectedCard)
    /\ WF_lastOp(state.phase = "showdown" /\ Made("determineWinner"))

CallsPossible ==
    /\ RoundToStart =>
          /\ startRevealRound(state) # state
          /\ lastOp # [op |-> "startRevealRound", changed |-> TRUE]
    /\ state.phase = "showdown" =>
          /\ determineWinner(state) # state
          /\ lastOp # [op |-> "determineWinner", changed |-> TRUE]

(***************************************************************************)
(* Properties.                                                             *)
(***************************************************************************)
Seats == DOMAIN state.players

WaitingIds == Range(state.waitingForPlayers)

\* The seats that still hold a hole card
Holders == {k \in Seats : Len(state.players[k].holeCards) > 0}

C1_Partition ==
    \A k \in Seats :
        LET p == state.players[k]
            dealt == NewGame(game).players[k]
        IN  /\ Range(p.doorCards) \cap Range(p.holeCards) = {}
            /\ Range(p.doorCards) \cap Range(p.revealedHoleCards) = {}
            /\ Range(p.holeCards) \cap Range(p.revealedHoleCards) = {}
            /\ Range(p.doorCards) \cup Range(p.holeCards) \cup Range(p.revealedHoleCards)
                 = Range(dealt.doorCards) \cup Range(dealt.holeCards)

C1_Step ==
    /\ DOMAIN state'.players = Seats
    /\ \A k \in Seats :
          /\ state'.players[k].doorCards = state.players[k].doorCards
          /\ Len(state'.players[k].holeCards) <= Len(state.players[k].holeCards)
    /\ (lastOp'.op = "revealSelectedCard" /\ lastOp'.changed) =>
          \E k \in Seats :
              /\ Len(state'.players[k].holeCards) = Len(state.players[k].holeCards) - 1
              /\ \A j \in Seats \ {k} :
                    Len(state'.players[j].holeCards) = Len(state.players[j].holeCards)

\* C1: in every reachable state the doorCards, holeCards and
\* revealedHoleCards of each player are pairwise disjoint and their union is
\* the set of cards dealt to the player; no step changes doorCards or makes
\* holeCards longer; a successful revealSelectedCard shortens the holeCards of
\* exactly one player, by exactly one card.
C1_CardsPartitioned == []C1_Partition /\ [][C1_Step]_vars

\* A reveal has succeeded for a seat that has revealed before and still holds a card
C1_Witness ==
    /\ lastOp.op = "revealSelectedCard" /\ lastOp.changed
    /\ \E k \in Seats : /\ Len(state.players[k].revealedHoleCards) >= 2
                        /\ Len(state.players[k].holeCards) >= 1

\* C2: a game of 2 to 5 players in which rounds are started and the waiting
\* seats reveal reaches phase showdown, and from showdown it reaches phase
\* finished with a winner list that is not empty.
C2_GameEnds ==
    /\ []CallsPossible
    /\ <>(state.phase = "showdown")
    /\ (state.phase = "showdown")
          ~> (state.phase = "finished" /\ state.winner # NULL /\ Len(state.winner) > 0)

\* determineWinner has finished a game that went through several rounds
C2_Witness ==
    /\ state.phase = "finished" /\ state.winner # NULL /\ Len(state.winner) > 0
    /\ lastOp.op = "determineWinner" /\ lastOp.changed
    /\ state.currentRound >= 3

\* C3: after startRevealRound in phase revealing with a hole card left,
\* waitingForPlayers lists, once each, exactly the players that hold a hole
\* card and whose current strength is the least among the players that hold
\* one.
C3_WaitingAreWeakest ==
    (lastOp.op = "startRevealRound" /\ state.phase = "revealing" /\ Holders # {}) =>
        LET current == ArrayOf([k \in Seats |-> getCurrentStrength(state.players[k]).strength])
            weakest == {k \in Holders :
                          \A j \in Holders : ~StrengthLess(current[j], current[k])}
        IN  /\ WaitingIds = {state.players[k].id : k \in weakest}
            /\ Len(state.waitingForPlayers) = Cardinality(weakest)

\* startRevealRound made two tied seats wait and left a seat with hole cards out
C3_Witness ==
    /\ lastOp.op = "startRevealRound" /\ state.phase = "revealing"
    /\ Len(state.waitingForPlayers) >= 2
    /\ \E k \in Holders : state.players[k].id \notin WaitingIds

\* The hidden cards of a state: the hole cards seat by seat, then the dead cards
RECURSIVE HiddenBefore(_, _)
HiddenBefore(players, k) ==
    IF k = 1 THEN <<>> ELSE HiddenBefore(players, k - 1) \o players[k - 1].holeCards

\* The state s with other cards hidden: the hidden cards change places, each
\* taking the place r further on; what is face up and how many hole cards a
\* seat holds stay as they are.
Rehide(s, r) ==
    LET pool == HiddenBefore(s.players, Len(s.players) + 1) \o s.deadCards
        n == Len(pool)
        moved == ArrayOf([i \in 1 .. n |-> pool[((i - 1 + r) % n) + 1]])
        held == Len(pool) - Len(s.deadCards)
    IN  IF n = 0 THEN s
        ELSE [s EXCEPT
                !.players = ArrayOf([k \in DOMAIN s.players |->
                    LET from == Len(HiddenBefore(s.players, k))
                    IN  [s.players[k] EXCEPT
                           !.holeCards = SubSeq(moved, from + 1,
                                                from + Len(s.players[k].holeCards))]]),
                !.deadCards = SubSeq(moved, held + 1, n)]

\* C4: startRevealRound gives the same waitingForPlayers and the same phase
\* for two states that agree on every doorCards and revealedHoleCards and on
\* the number of hole cards of each seat, whatever cards are hidden.
C4_HiddenCardsIgnored ==
    \A r \in 1 .. MaxRehide :
        LET own == startRevealRound(state)
            other == startRevealRound(Rehide(state, r))
        IN  /\ other.waitingForPlayers = own.waitingForPlayers
            /\ other.phase = own.phase

\* startRevealRound chose the waiting seats while cards were hidden that
\* another hiding replaces
C4_Witness ==
    /\ lastOp.op = "startRevealRound" /\ lastOp.changed
    /\ Len(state.waitingForPlayers) >= 1
    /\ state.currentRound >= 1
    /\ \E r \in 1 .. MaxRehide : Rehide(state, r).players # state.players

\* C5: revealSelectedCard returns its state when the phase is not
\* revealing, when playerId is not in waitingForPlayers, and when cardId is
\* not a hole card of that player; startRevealRound returns its state outside
\* revealing and determineWinner outside showdown.
C5_RejectedCallsChangeNothing ==
    /\ \A playerId \in 0 .. Len(Names) :
         \A cardId \in CardIds :
            ( \/ state.phase # "revealing"
              \/ playerId \notin WaitingIds
              \/ \A k \in Seats : state.players[k].id = playerId
                                     => cardId \notin Range(state.players[k].holeCards) )
            => revealSelectedCard(state, playerId, cardId) = state
    /\ state.phase # "revealing" => startRevealRound(state) = state
    /\ state.phase # "showdown" => determineWinner(state) = state

\* A call of revealSelectedCard was turned down while seats were waiting
C5_Witness ==
    /\ lastOp.op = "revealSelectedCard" /\ ~lastOp.changed
    /\ state.phase = "revealing"
    /\ Len(state.waitingForPlayers) >= 1

\* The events of a history that carry the round number
EventsOfRound(history, round) == {i \in DOMAIN history : history[i].round = round}

\* C6: revealSelectedCard(state, p, c) for a waiting player p and a hole
\* card c of p takes c, and only c, out of p's holeCards, appends it to p's
\* revealedHoleCards, takes p, and only p, out of waitingForPlayers and records
\* (p, c) in the one event of the current round; the other players, the
\* door cards, deadCards and winner are as before.
C6_RevealFrame ==
    \A k \in Seats :
        LET p == state.players[k]
        IN  \A c \in Range(p.holeCards) :
              (state.phase = "revealing" /\ p.id \in WaitingIds) =>
                LET new == revealSelectedCard(state, p.id, c)
                    q == new.players[k]
                    events == EventsOfRound(new.revealHistory, state.currentRound)
                IN  /\ q.holeCards = SelectSeq(p.holeCards, LAMBDA x : x # c)
                    /\ Len(q.holeCards) = Len(p.holeCards) - 1
                    /\ q.revealedHoleCards = Append(p.revealedHoleCards, c)
                    /\ q.doorCards = p.doorCards /\ q.id = p.id /\ q.name = p.name
                    /\ \A j \in Seats \ {k} : new.players[j] = state.players[j]
                    /\ DOMAIN new.players = Seats
                    /\ new.waitingForPlayers
                         = SelectSeq(state.waitingForPlayers, LAMBDA id : id # p.id)
                    /\ Len(new.waitingForPlayers) = Len(state.waitingForPlayers) - 1
                    /\ Cardinality(events) = 1
                    /\ \A i \in events :
                          LET e == new.revealHistory[i]
                          IN  /\ e.cards[Len(e.cards)] = [playerId |-> p.id, card |-> c]
                              /\ e.playerIds[Len(e.playerIds)] = p.id
                    /\ new.deadCards = state.deadCards
                    /\ new.winner = state.winner

\* A reveal has succeeded in a round in which another seat is still waiting
C6_Witness ==
    /\ lastOp.op = "revealSelectedCard" /\ lastOp.changed
    /\ Len(state.waitingForPlayers) >= 1
    /\ \E i \in EventsOfRound(state.revealHistory, state.currentRound) :
          Len(state.revealHistory[i].cards) >= 1

C7_Step ==
    LET reveals == \E k \in Seats :
                      Len(state'.players[k].holeCards) < Len(state.players[k].holeCards)
        revealed == lastOp'.op = "revealSelectedCard" /\ lastOp'.changed
    IN  /\ state'.currentRound # state.currentRound =>
              /\ reveals
              /\ state'.waitingForPlayers = <<>>
              /\ state'.currentRound = state.currentRound + 1
              /\ state'.phase = IF \A k \in Seats : Len(state'.players[k].holeCards) = 0
                                THEN "showdown" ELSE "revealing"
        /\ (revealed /\ state'.waitingForPlayers = <<>>) =>
              state'.currentRound = state.currentRound + 1
        /\ (revealed /\ state'.waitingForPlayers # <<>>) =>
              /\ state'.currentRound = state.currentRound
              /\ state'.phase = state.phase

\* C7: currentRound changes only in a step that reveals and leaves
\* waitingForPlayers empty, and then it grows by 1 and the phase is showdown if
\* no player holds a hole card and revealing otherwise; the reveal that
\* empties waitingForPlayers does change it; a reveal that leaves a seat waiting
\* changes neither currentRound nor the phase.
C7_RoundClosing == [][C7_Step]_vars

\* The reveal of the last hole card of the game has closed the round
C7_Witness ==
    /\ lastOp.op = "revealSelectedCard" /\ lastOp.changed
    /\ state.waitingForPlayers = <<>>
    /\ state.phase = "showdown"
    /\ state.currentRound >= 2

\* C8: determineWinner in phase showdown gives phase finished and a winner
\* list that holds, once each, exactly the players whose final strength no
\* other player exceeds.
C8_WinnersAreStrongest ==
    state.phase = "showdown" =>
        LET new == determineWinner(state)
            final == ArrayOf([k \in Seats |-> getFinalStrength(state.players[k]).strength])
            strongest == {k \in Seats : \A j \in Seats : ~StrengthLess(final[k], final[j])}
        IN  /\ new.phase = "finished"
            /\ new.winner # NULL
            /\ Range(new.winner) = {state.players[k] : k \in strongest}
            /\ Len(new.winner) = Cardinality(strongest)

\* determineWinner named two tied winners and left a third player out
C8_Witness ==
    /\ lastOp.op = "determineWinner" /\ lastOp.changed
    /\ state.phase = "finished"
    /\ Len(state.winner) = 2
    /\ Len(state.players) >= 3

PhaseOrder(phase) ==
    CASE phase = "dealing" -> 0
      [] phase = "revealing" -> 1
      [] phase = "showdown" -> 2
      [] phase = "finished" -> 3

C9_Step ==
    /\ PhaseOrder(state'.phase) >= PhaseOrder(state.phase)
    /\ state'.currentRound # state.currentRound => state.phase = "revealing"

\* C9: no step takes the phase back in the order dealing, revealing,
\* showdown, finished, and the round number moves in phase revealing only.
C9_PhaseMonotone == [][C9_Step]_vars

\* startRevealRound was called on a finished game of several rounds
C9_Witness ==
    /\ state.phase = "finished"
    /\ lastOp.op = "startRevealRound"
    /\ state.currentRound >= 2

C10_Step ==
    state'.winner # state.winner =>
        lastOp'.op = "determineWinner" /\ state.phase = "showdown"

\* C10: winner is null exactly when the phase is not finished, and a step
\* changes winner only if it is determineWinner applied in phase showdown.
C10_WinnerOnlyWhenFinished ==
    /\ []((state.winner = NULL) <=> (state.phase # "finished"))
    /\ [][C10_Step]_vars

\* A finished game keeps its winners under a later call
C10_Witness ==
    /\ state.phase = "finished" /\ state.winner # NULL
    /\ lastOp.op = "processRevealRound"
(***************************************************************************)
(* The online mode: lib/online-game.ts and the App component.  The tables  *)
(* game_rooms and room_players are shared; every client holds its own copy *)
(* of the GameState and of the room's players, computes the next GameState *)
(* from its copy and writes it whole; the tables' changes reach the        *)
(* subscribed clients as notifications.  A player_id is written as the     *)
(* player's name, a client is named by the seat of its player.             *)
(***************************************************************************)
Room == "R1"

\* The games of GameTable played online: in the first the seats 0 and 1 are
\* the weakest of the deal, in the second seat 2 is
OnlineGames == {7, 8, 9}

OnlineSeats == 0 .. (GameTable[game].playerCount - 1)

PlayerIdOf(slot) == Names[slot + 1]

\* The seats whose browser was closed as the game started
Gone == OnlineSeats \ GameTable[game].humans

\* How far the clients play: they start no call on a copy of the GameState
\* whose currentRound has reached MaxRound, choose a card MaxReveals times
\* and let the timer of auto-play fire MaxAutoPlays times
MaxRound == 1

MaxReveals == 2

MaxAutoPlays == 1

\* How many more players leave the game or close their browser
MaxLeaves == 1

\* Row level security is enabled on both tables, and these are the commands
\* that the policies of each allow to the clients' key
RoomPolicies == {"SELECT", "INSERT", "UPDATE"}

PlayerPolicies == {"SELECT", "INSERT", "DELETE", "UPDATE"}

\* A client's delete of a room: a command that no policy allows removes no row
\* and reports no error
DeleteRoom(rooms, roomId) ==
    IF "DELETE" \in RoomPolicies
    THEN [id \in DOMAIN rooms \ {roomId} |-> rooms[id]]
    ELSE rooms

\* room_id REFERENCES game_rooms(id) ON DELETE CASCADE
Cascade(rows, rooms) == {p \in rows : p.room_id \in DOMAIN rooms}

\* .order("slot") of a set of rows
RECURSIVE OrderBySlot(_)
OrderBySlot(rows) ==
    IF rows = {} THEN <<>>
    ELSE LET first == CHOOSE r \in rows : \A q \in rows : r.slot <= q.slot
         IN  <<first>> \o OrderBySlot(rows \ {first})

RowsOf(roomId) == {r \in room_players : r.room_id = roomId}

getRoomPlayers(roomId) == OrderBySlot(RowsOf(roomId))

\* Faulty variant of Advanced: the state is written as the reveal left it
Unadvanced(revealed) == revealed

\* Faulty variant of Advanced: a round that closes is counted twice
SkippingRound(revealed) ==
    IF revealed.phase = "revealing" /\ Len(revealed.waitingForPlayers) = 0
    THEN startRevealRound([revealed EXCEPT !.currentRound = @ + 1])
    ELSE IF revealed.phase = "showdown" THEN determineWinner(revealed)
    ELSE revealed

\* The end of revealCardOnline and of autoPlayForOfflinePlayers: the next
\* round is started when nobody is waiting, the winner determined at showdown
Advanced(revealed) ==
    LET Won(newState) ==
          IF newState.phase = "showdown" THEN determineWinner(newState) ELSE newState
    IN  Won(IF revealed.phase = "revealing" /\ Len(revealed.waitingForPlayers) = 0
            THEN startRevealRound(revealed)
            ELSE revealed)

\* revealCardOnline up to its write: the GameState it writes
revealCardOnline(currentState, playerId, cardId) ==
    Advanced(revealSelectedCard(currentState, playerId, cardId))

\* Faulty variant of IsOffline: auto-play for every waiting player
AnyoneOffline(roomPlayers, slot) == TRUE

IsOffline(roomPlayers, slot) ==
    \/ ~\E k \in DOMAIN roomPlayers : roomPlayers[k].slot = slot
    \/ \E k \in DOMAIN roomPlayers :
          /\ roomPlayers[k].slot = slot
          /\ \A j \in 1 .. (k - 1) : roomPlayers[j].slot # slot
          /\ roomPlayers[k].is_online # TRUE

\* the loop of autoPlayForOfflinePlayers over waitingOffline
RECURSIVE AutoReveal(_, _)
AutoReveal(newState, slots) ==
    IF slots = <<>> THEN newState
    ELSE LET slot == Head(slots)
         IN  IF (slot + 1) \notin DOMAIN newState.players
             THEN AutoReveal(newState, Tail(slots))
             ELSE IF newState.players[slot + 1].holeCards = <<>>
             THEN AutoReveal(newState, Tail(slots))
             ELSE AutoReveal(revealSelectedCard(newState, slot,
                                 newState.players[slot + 1].holeCards[1]),
                             Tail(slots))

\* waitingOffline of autoPlayForOfflinePlayers
WaitingOffline(currentState, roomPlayers) ==
    SelectSeq(currentState.waitingForPlayers, LAMBDA slot : IsOffline(roomPlayers, slot))

\* autoPlayForOfflinePlayers up to its write, when waitingOffline is not
\* empty: the GameState it writes
autoPlayForOfflinePlayers(currentState, roomPlayers) ==
    Advanced(AutoReveal(currentState, WaitingOffline(currentState, roomPlayers)))

\* The auto-play effect of App: whether it sets its timer
AutoPlayDue(c) ==
    /\ c.type = "playing"
    /\ c.gameState.phase = "revealing"
    /\ LET onlinePlayers == SelectSeq(c.roomPlayers, LAMBDA p : p.is_online # FALSE)
           offlinePlayerSlots ==
               {c.roomPlayers[k].slot : k \in {j \in DOMAIN c.roomPlayers :
                                                  ~c.roomPlayers[j].is_online}}
       IN  /\ Len(onlinePlayers) # 0
           /\ \A k \in DOMAIN onlinePlayers : c.mySlot <= onlinePlayers[k].slot
           /\ \E k \in DOMAIN onlinePlayers : c.mySlot = onlinePlayers[k].slot
           /\ \E k \in DOMAIN c.gameState.waitingForPlayers :
                 c.gameState.waitingForPlayers[k] \in offlinePlayerSlots

\* A client after a change of its state or of its roomPlayers: the effects
\* ran again, the old timer is cleared and a new one set if auto-play is due
Rendered(c) == [c EXCEPT !.timer = AutoPlayDue(c)]

Subscribed(c) == clients[c].type \in {"waiting", "playing"}

\* channel after message msg is sent to the subscribers of the room
Notified(ch, msg) ==
    [c \in DOMAIN ch |-> IF Subscribed(c) THEN Append(ch[c], msg) ELSE ch[c]]

\* payload.new of an UPDATE of game_rooms; game_state is <<>> when null,
\* <<the GameState>> otherwise
RoomMessage(status, gameState) ==
    [table |-> "game_rooms", status |-> status, game_state |-> <<gameState>>]

PlayersMessage == [table |-> "room_players"]

OnlineOp(name, c) == [op |-> name, client |-> c]

\* cardId of a call that takes none
NoCard == DeckSize

\* The calls in progress are records of their client, function and stage
\* (sent, then done once written), of the arguments currentState and cardId
\* and of newState, the GameState the call writes and returns
Calls(c, kind) == {r \in requests : r.client = c /\ r.kind = kind}

SyncInit ==
    /\ game \in OnlineGames
    /\ state = startRevealRound(NewGame(game))
    /\ lastOp = [op |-> "startGame", client |-> 0]
    /\ game_rooms = (Room :> [host_id |-> PlayerIdOf(0), status |-> "playing"])
    /\ room_players = {[room_id |-> Room, player_id |-> PlayerIdOf(slot),
                        slot |-> slot, is_online |-> slot \notin Gone] :
                           slot \in OnlineSeats}
    /\ clients = [slot \in OnlineSeats |->
                    Rendered([type |-> IF slot \in Gone THEN "closed" ELSE "playing",
                              gameState |-> state, mySlot |-> slot,
                              roomPlayers |-> getRoomPlayers(Room), timer |-> FALSE,
                              leaving |-> "no"])]
    /\ requests = {}
    /\ calls = [revealCardOnline |-> 0, autoPlayForOfflinePlayers |-> 0]
    /\ channel = [slot \in OnlineSeats |-> <<>>]

\* handleSelectCard up to the write of revealCardOnline
HandleSelectCard(c) ==
    LET me == clients[c]
    IN  /\ me.type = "playing"
        /\ me.gameState.phase = "revealing"
        /\ Includes(me.gameState.waitingForPlayers, me.mySlot)
        /\ me.gameState.currentRound < MaxRound
        /\ calls.revealCardOnline < MaxReveals
        /\ calls' = [calls EXCEPT !.revealCardOnline = @ + 1]
        /\ Calls(c, "revealCardOnline") = {}
        /\ \E cardId \in Range(Slice(me.gameState.players[me.mySlot + 1].holeCards,
                                      0, MaxPick)) :
              requests' = requests \cup
                  {[client |-> c, kind |-> "revealCardOnline", stage |-> "sent",
                    currentState |-> me.gameState, cardId |-> cardId,
                    newState |-> revealCardOnline(me.gameState, me.mySlot, cardId)]}
        /\ lastOp' = OnlineOp("handleSelectCard", c)
        /\ UNCHANGED <<state, game, game_rooms, room_players, clients, channel>>

\* the timer of the auto-play effect fires: autoPlayForOfflinePlayers up to its write
AutoPlayTimer(c) ==
    LET me == clients[c]
    IN  /\ me.timer
        /\ me.gameState.currentRound < MaxRound
        /\ calls.autoPlayForOfflinePlayers < MaxAutoPlays
        /\ calls' = [calls EXCEPT !.autoPlayForOfflinePlayers = @ + 1]
        /\ Calls(c, "autoPlayForOfflinePlayers") = {}
        /\ clients' = [clients EXCEPT ![c].timer = FALSE]
        /\ requests' =
             IF Len(WaitingOffline(me.gameState, me.roomPlayers)) = 0 THEN requests
             ELSE requests \cup
                    {[client |-> c, kind |-> "autoPlayForOfflinePlayers",
                      stage |-> "sent",
                      currentState |-> me.gameState, cardId |-> NoCard,
                      newState |-> autoPlayForOfflinePlayers(me.gameState,
                                                             me.roomPlayers)]}
        /\ lastOp' = OnlineOp("autoPlayForOfflinePlayers", c)
        /\ UNCHANGED <<state, game, game_rooms, room_players, channel>>

\* removeOfflinePlayers
OnlineRows(rows, roomId) == {r \in rows : r.room_id # roomId \/ r.is_online = TRUE}

\* The update of game_rooms by revealCardOnline and autoPlayForOfflinePlayers,
\* and removeOfflinePlayers once the game is finished
WriteGameState(r) ==
    LET status == IF r.newState.phase = "finished" THEN "finished" ELSE "playing"
        kept == IF r.newState.phase = "finished"
                THEN OnlineRows(room_players, Room) ELSE room_players
        updated == IF Room \in DOMAIN game_rooms
                   THEN Notified(channel, RoomMessage(status, r.newState))
                   ELSE channel
    IN  /\ r.stage = "sent"
        /\ IF Room \in DOMAIN game_rooms
           THEN /\ state' = r.newState
                /\ game_rooms' = [game_rooms EXCEPT ![Room].status = status]
           ELSE UNCHANGED <<state, game_rooms>>
        /\ room_players' = kept
        /\ channel' = IF kept # room_players THEN Notified(updated, PlayersMessage)
                      ELSE updated
        /\ requests' = (requests \ {r}) \cup {[r EXCEPT !.stage = "done"]}
        /\ lastOp' = OnlineOp(r.kind, r.client)
        /\ UNCHANGED <<game, clients, calls>>

\* The caller receives the new state: setState of handleSelectCard, which
\* spreads the state the handler was made with, and of the auto-play timer
ReceiveGameState(r) ==
    LET me == clients[r.client]
        fetched == IF me.type = "lobby" THEN getRoomPlayers(Room) ELSE me.roomPlayers
    IN  /\ r.stage = "done"
        /\ requests' = requests \ {r}
        /\ clients' =
             IF me.type = "closed" THEN clients
             ELSE IF r.kind = "revealCardOnline"
             THEN [clients EXCEPT ![r.client] =
                     Rendered([me EXCEPT !.type = "playing",
                                         !.gameState = r.newState,
                                         !.roomPlayers = fetched])]
             ELSE IF me.type = "playing"
             THEN [clients EXCEPT ![r.client] =
                     Rendered([me EXCEPT !.gameState = r.newState])]
             ELSE clients
        /\ lastOp' = OnlineOp("setState", r.client)
        /\ UNCHANGED <<state, game, game_rooms, room_players, channel, calls>>

\* The callbacks of subscribeToRoom in App
DeliverNotification(c) ==
    LET me == clients[c]
        msg == Head(channel[c])
    IN  /\ channel[c] # <<>>
        /\ channel' = [channel EXCEPT ![c] = Tail(channel[c])]
        /\ clients' =
             IF msg.table = "game_rooms"
             THEN IF /\ msg.status \in {"playing", "finished"}
                     /\ msg.game_state # <<>>
                     /\ me.type \in {"waiting", "playing"}
                  THEN [clients EXCEPT ![c] =
                          Rendered([me EXCEPT !.type = "playing",
                                              !.gameState = msg.game_state[1]])]
                  ELSE clients
             ELSE [clients EXCEPT ![c] =
                     Rendered([me EXCEPT !.roomPlayers = getRoomPlayers(Room)])]
        /\ lastOp' = OnlineOp(msg.table, c)
        /\ UNCHANGED <<state, game, game_rooms, room_players, requests, calls>>

\* Faulty variant of SetOffline: the row is deleted, as in a waiting room
RowRemoved(rows, roomId, playerId) ==
    {p \in rows : ~(p.room_id = roomId /\ p.player_id = playerId)}

SetOffline(rows, roomId, playerId) ==
    {IF r.room_id = roomId /\ r.player_id = playerId
     THEN [r EXCEPT !.is_online = FALSE] ELSE r : r \in rows}

\* How many rows of room_players are offline
Offline(rows) == Cardinality({p \in rows : p.is_online # TRUE})

\* handleLeave during a game, up to the end of markPlayerOffline: the player
\* is set offline, and the room removed when all its players are offline
HandleLeave(c) ==
    LET existing == {r \in RowsOf(Room) : r.player_id = PlayerIdOf(c)}
        updated == SetOffline(room_players, Room, PlayerIdOf(c))
        allOffline == \A p \in updated : p.room_id = Room => p.is_online # TRUE
    IN  /\ clients[c].type = "playing"
        /\ clients[c].leaving = "no"
        /\ Offline(room_players) < Cardinality(Gone) + MaxLeaves
        /\ IF existing = {}
           THEN UNCHANGED <<room_players, game_rooms, channel>>
           ELSE IF allOffline
           THEN /\ room_players' = {p \in updated : p.room_id # Room}
                /\ game_rooms' = DeleteRoom(game_rooms, Room)
                /\ channel' = Notified(Notified(channel, PlayersMessage), PlayersMessage)
           ELSE /\ room_players' = updated
                /\ channel' = Notified(channel, PlayersMessage)
                /\ UNCHANGED game_rooms
        /\ clients' = [clients EXCEPT ![c].leaving = "done"]
        /\ lastOp' = OnlineOp("markPlayerOffline", c)
        /\ UNCHANGED <<state, game, requests, calls>>

\* handleLeave after markPlayerOffline: the client is back in the lobby
LeaveToLobby(c) ==
    /\ clients[c].leaving = "done"
    /\ clients' = [clients EXCEPT ![c].type = "lobby",
                                  ![c].timer = FALSE,
                                  ![c].leaving = "no"]
    /\ channel' = [channel EXCEPT ![c] = <<>>]
    /\ lastOp' = OnlineOp("handleLeave", c)
    /\ UNCHANGED <<state, game, game_rooms, room_players, requests, calls>>

\* The browser is closed during a game: handleBeforeUnload sets the player offline
HandleBeforeUnload(c) ==
    /\ clients[c].type = "playing"
    /\ Offline(room_players) < Cardinality(Gone) + MaxLeaves
    /\ room_players' = SetOffline(room_players, Room, PlayerIdOf(c))
    /\ clients' = [clients EXCEPT ![c].type = "closed",
                                  ![c].timer = FALSE,
                                  ![c].leaving = "no"]
    /\ channel' = [Notified(channel, PlayersMessage) EXCEPT ![c] = <<>>]
    /\ lastOp' = OnlineOp("handleBeforeUnload", c)
    /\ UNCHANGED <<state, game, game_rooms, requests, calls>>

\* getPlayingRooms, called for the lobby of any visitor, when it finds all
\* the players of the game offline: it removes the room's rows and the room
\* (otherwise it only reads)
GetPlayingRooms ==
    LET allOffline ==
            \A k \in DOMAIN state.players :
                ~\E p \in RowsOf(Room) :
                    p.player_id = state.players[k].name /\ p.is_online = TRUE
    IN  /\ Room \in DOMAIN game_rooms
        /\ game_rooms[Room].status = "playing"
        /\ allOffline
        /\ lastOp.op # "getPlayingRooms"
        /\ room_players' = {p \in room_players : p.room_id # Room}
        /\ game_rooms' = DeleteRoom(game_rooms, Room)
        /\ channel' = IF room_players' # room_players
                      THEN Notified(channel, PlayersMessage) ELSE channel
        /\ lastOp' = [op |-> "getPlayingRooms", client |-> 0]
        /\ UNCHANGED <<state, game, clients, requests, calls>>

SyncNext ==
    \/ GetPlayingRooms
    \/ \E c \in OnlineSeats : HandleSelectCard(c)
    \/ \E c \in OnlineSeats : AutoPlayTimer(c)
    \/ \E r \in requests : WriteGameState(r)
    \/ \E r \in requests : ReceiveGameState(r)
    \/ \E c \in OnlineSeats : DeliverNotification(c)
    \/ \E c \in OnlineSeats : HandleLeave(c)
    \/ \E c \in OnlineSeats : LeaveToLobby(c)
    \/ \E c \in OnlineSeats : HandleBeforeUnload(c)

SyncSpec == SyncInit /\ [][SyncNext]_vars


(***************************************************************************)
(* The waiting rooms: createRoom, joinRoomById and leaveRoom, each a        *)
(* sequence of reads and writes of the two tables that the calls of other  *)
(* clients may interleave with.  A room is entered by visitors, who come   *)
(* and go; the first room may already hold its creator and players who     *)
(* joined and stay.  A call in progress is a                               *)
(* record of its client, function and stage, and of what it has read: the  *)
(* room's host_id and the room's players.                                  *)
(***************************************************************************)
MaxRooms == 1

MaxVisitors == 3

MaxSettled == 3

RoomIds == 1 .. MaxRooms

NoRoom == 0

Visitors == Range(SubSeq(Names, 1, MaxVisitors))

Settlers == <<"S0", "S1", "S2", "S3", "S4">>

RoomOp(name, c, result) == [op |-> name, client |-> c, result |-> result]

Call(c, kind, stage, roomId, host, players, slot) ==
    [client |-> c, kind |-> kind, stage |-> stage, roomId |-> roomId,
     host_id |-> host, players |-> players, slot |-> slot]

Idle(c) == \A r \in requests : r.client # c

Row(roomId, playerId, slot) ==
    [room_id |-> roomId, player_id |-> playerId, slot |-> slot, is_online |-> TRUE]

\* Faulty variant of Insertable: the table without its UNIQUE constraints
NoUniqueness(rows, rooms, row) == row.room_id \in DOMAIN rooms

\* Whether the constraints of table room_players let a row be inserted
Insertable(rows, rooms, row) ==
    /\ row.room_id \in DOMAIN rooms
    /\ row.slot >= 0 /\ row.slot <= 4
    /\ ~\E r \in rows : r.room_id = row.room_id /\ r.slot = row.slot
    /\ ~\E r \in rows : r.room_id = row.room_id /\ r.player_id = row.player_id

\* Faulty variant of NextSlot: the number of the players as the next slot
CountedSlot(usedSlots, slot) == Cardinality(usedSlots)

\* while (usedSlots.has(slot) && slot < 5) slot++
RECURSIVE NextSlot(_, _)
NextSlot(usedSlots, slot) ==
    IF slot \in usedSlots /\ slot < 5 THEN NextSlot(usedSlots, slot + 1) ELSE slot

RoomInit ==
    \E settled \in {0, MaxSettled} :
        /\ state = NULL
        /\ game = 0
        /\ lastOp = RoomOp("Lobby", "", "")
        /\ game_rooms = [id \in {k \in RoomIds : k = 1 /\ settled > 0} |->
                            [host_id |-> Names[1], status |-> "waiting"]]
        /\ room_players = {Row(1, Names[1], 0) : k \in 1 .. settled}
                             \cup {Row(1, Settlers[k], k) : k \in 1 .. settled}
        /\ clients = [c \in Visitors |->
                        IF settled > 0 /\ c = Names[1]
                        THEN [type |-> "waiting", room |-> 1, mySlot |-> 0]
                        ELSE [type |-> "lobby", room |-> NoRoom, mySlot |-> 0]]
        /\ requests = {}
        /\ calls = [createRoom |-> IF settled > 0 THEN 1 ELSE 0]
        /\ channel = <<>>

\* createRoom: the insert into game_rooms
CreateRoomInsert(c) ==
    LET id == calls.createRoom + 1
    IN  /\ clients[c].type = "lobby"
        /\ Idle(c)
        /\ id \in RoomIds
        /\ calls' = [calls EXCEPT !.createRoom = id]
        /\ game_rooms' = [k \in DOMAIN game_rooms \cup {id} |->
                            IF k = id THEN [host_id |-> c, status |-> "waiting"]
                            ELSE game_rooms[k]]
        /\ requests' = requests \cup {Call(c, "createRoom", "room", id, c, {}, 0)}
        /\ lastOp' = RoomOp("createRoom", c, "room")
        /\ UNCHANGED <<state, game, room_players, clients, channel>>

\* createRoom: the insert into room_players, and handleCreateRoom after it
CreateRoomJoin(r) ==
    LET row == Row(r.roomId, r.client, 0)
        joined == Insertable(room_players, game_rooms, row)
    IN  /\ r.kind = "createRoom"
        /\ requests' = requests \ {r}
        /\ room_players' = IF joined THEN room_players \cup {row} ELSE room_players
        /\ clients' = IF joined
                      THEN [clients EXCEPT ![r.client] =
                              [type |-> "waiting", room |-> r.roomId, mySlot |-> 0]]
                      ELSE clients
        /\ lastOp' = RoomOp("createRoom", r.client, IF joined THEN "joined" ELSE "rejected")
        /\ UNCHANGED <<state, game, game_rooms, calls, channel>>

\* joinRoomById: the room is looked up
JoinFindRoom(c) ==
    \E roomId \in RoomIds :
        LET found == roomId \in DOMAIN game_rooms /\ game_rooms[roomId].status = "waiting"
        IN  /\ clients[c].type = "lobby"
            /\ Idle(c)
            /\ requests' = IF found
                           THEN requests \cup
                                  {Call(c, "joinRoomById", "room", roomId,
                                        game_rooms[roomId].host_id, {}, 0)}
                           ELSE requests
            /\ lastOp' = RoomOp("joinRoomById", c, IF found THEN "room" ELSE "failed")
            /\ UNCHANGED <<state, game, game_rooms, room_players, clients, calls, channel>>

\* joinRoomById: the players are read; a player already in the room is done
JoinReadPlayers(r) ==
    LET players == RowsOf(r.roomId)
        existingPlayer == {p \in players : p.player_id = r.client}
        usedSlots == {p.slot : p \in players}
    IN  /\ r.kind = "joinRoomById" /\ r.stage = "room"
        /\ IF existingPlayer # {}
           THEN /\ requests' = requests \ {r}
                /\ clients' = [clients EXCEPT ![r.client] =
                                 [type |-> "waiting", room |-> r.roomId,
                                  mySlot |-> (CHOOSE p \in existingPlayer : TRUE).slot]]
                /\ lastOp' = RoomOp("joinRoomById", r.client, "existing")
           ELSE IF Cardinality(players) >= 5
           THEN /\ requests' = requests \ {r}
                /\ lastOp' = RoomOp("joinRoomById", r.client, "full")
                /\ UNCHANGED clients
           ELSE /\ requests' = (requests \ {r}) \cup
                      {[r EXCEPT !.stage = "players", !.players = players,
                                 !.slot = NextSlot(usedSlots, 0)]}
                /\ lastOp' = RoomOp("joinRoomById", r.client, "players")
                /\ UNCHANGED clients
        /\ UNCHANGED <<state, game, game_rooms, room_players, calls, channel>>

\* joinRoomById: the insert into room_players, and handleJoinRoom after it
JoinInsert(r) ==
    LET row == Row(r.roomId, r.client, r.slot)
        joined == Insertable(room_players, game_rooms, row)
    IN  /\ r.kind = "joinRoomById" /\ r.stage = "players"
        /\ requests' = requests \ {r}
        /\ room_players' = IF joined THEN room_players \cup {row} ELSE room_players
        /\ clients' = IF joined
                      THEN [clients EXCEPT ![r.client] =
                              [type |-> "waiting", room |-> r.roomId, mySlot |-> r.slot]]
                      ELSE clients
        /\ lastOp' = RoomOp("joinRoomById", r.client, IF joined THEN "joined" ELSE "rejected")
        /\ UNCHANGED <<state, game, game_rooms, calls, channel>>

ToLobby(c) == [clients EXCEPT ![c] = [type |-> "lobby", room |-> NoRoom, mySlot |-> 0]]

\* handleLeave in a waiting room, leaveRoom: the room is looked up
LeaveFindRoom(c) ==
    LET roomId == clients[c].room
        found == roomId \in DOMAIN game_rooms
    IN  /\ clients[c].type = "waiting"
        /\ Idle(c)
        /\ IF found
           THEN /\ requests' = requests \cup
                      {Call(c, "leaveRoom", "room", roomId,
                            game_rooms[roomId].host_id, {}, 0)}
                /\ UNCHANGED clients
           ELSE /\ clients' = ToLobby(c)
                /\ UNCHANGED requests
        /\ lastOp' = RoomOp("leaveRoom", c, IF found THEN "room" ELSE "failed")
        /\ UNCHANGED <<state, game, game_rooms, room_players, calls, channel>>

\* leaveRoom: the player's row is deleted
LeaveDelete(r) ==
    /\ r.kind = "leaveRoom" /\ r.stage = "room"
    /\ room_players' = {p \in room_players :
                           ~(p.room_id = r.roomId /\ p.player_id = r.client)}
    /\ requests' = (requests \ {r}) \cup {[r EXCEPT !.stage = "deleted"]}
    /\ lastOp' = RoomOp("leaveRoom", r.client, "deleted")
    /\ UNCHANGED <<state, game, game_rooms, clients, calls, channel>>

\* leaveRoom: the remaining players are read
LeaveReadRemaining(r) ==
    /\ r.kind = "leaveRoom" /\ r.stage = "deleted"
    /\ requests' = (requests \ {r}) \cup
          {[r EXCEPT !.stage = "remaining", !.players = RowsOf(r.roomId)]}
    /\ lastOp' = RoomOp("leaveRoom", r.client, "remaining")
    /\ UNCHANGED <<state, game, game_rooms, room_players, clients, calls, channel>>

\* leaveRoom: an empty room is deleted, with the rows that refer to it; a
\* host who left hands the room to the first of the remaining players
LeaveFinish(r) ==
    LET remainingPlayers == OrderBySlot(r.players)
    IN  /\ r.kind = "leaveRoom" /\ r.stage = "remaining"
        /\ requests' = requests \ {r}
        /\ clients' = ToLobby(r.client)
        /\ IF Len(remainingPlayers) = 0
           THEN /\ game_rooms' = DeleteRoom(game_rooms, r.roomId)
                /\ room_players' = Cascade(room_players, DeleteRoom(game_rooms, r.roomId))
                /\ lastOp' = RoomOp("leaveRoom", r.client, "empty")
           ELSE IF r.host_id = r.client /\ r.roomId \in DOMAIN game_rooms
           THEN /\ game_rooms' = [game_rooms EXCEPT
                                    ![r.roomId].host_id = remainingPlayers[1].player_id]
                /\ lastOp' = RoomOp("leaveRoom", r.client, "host changed")
                /\ UNCHANGED room_players
           ELSE /\ lastOp' = RoomOp("leaveRoom", r.client, "left")
                /\ UNCHANGED <<game_rooms, room_players>>
        /\ UNCHANGED <<state, game, calls, channel>>

\* The browser is closed in a waiting room: handleBeforeUnload sends the
\* delete of the player's row, which may get lost; the page is loaded anew
CloseBrowser(c) ==
    \E sent \in BOOLEAN :
        /\ clients[c].type = "waiting"
        /\ room_players' = IF sent
                           THEN {p \in room_players :
                                   ~(p.room_id = clients[c].room /\ p.player_id = c)}
                           ELSE room_players
        /\ clients' = ToLobby(c)
        /\ requests' = {r \in requests : r.client # c}
        /\ lastOp' = RoomOp("handleBeforeUnload", c, IF sent THEN "deleted" ELSE "lost")
        /\ UNCHANGED <<state, game, game_rooms, calls, channel>>

RoomNext ==
    \/ \E c \in Visitors : CreateRoomInsert(c)
    \/ \E r \in requests : CreateRoomJoin(r)
    \/ \E c \in Visitors : JoinFindRoom(c)
    \/ \E r \in requests : JoinReadPlayers(r)
    \/ \E r \in requests : JoinInsert(r)
    \/ \E c \in Visitors : LeaveFindRoom(c)
    \/ \E r \in requests : LeaveDelete(r)
    \/ \E r \in requests : LeaveReadRemaining(r)
    \/ \E r \in requests : LeaveFinish(r)
    \/ \E c \in Visitors : CloseBrowser(c)

RoomSpec == RoomInit /\ [][RoomNext]_vars

(***************************************************************************)
(* A game from its start to its end and to the next game in the same room. *)
(* Every call runs from the caller's copy of the game to its write and the *)
(* caller's setState without another call in between; the notifications of *)
(* the write reach the other clients later, so that their copies may be    *)
(* out of date when they call.  A player reveals the first hole card.  The *)
(* game is taken up in its last rounds, after RevealsPlayed reveals.       *)
(***************************************************************************)
LifeGame == 10

\* The shuffles of the games that startNewGame deals
NewDeals == {7}

\* Bounds: the reveals of the game before the model takes it up, the
\* writes of a GameState by revealCardOnline and autoPlayForOfflinePlayers,
\* the notifications a client has not yet received, the calls of startNewGame
\* and of startRevealRoundOnline
RevealsPlayed == 14

MaxWrites == 2

MaxPending == 1

MaxNewGames == 1

MaxRoundStarts == 1

Pending == \E c \in DOMAIN channel : Len(channel[c]) >= MaxPending

\* A game after n more reveals, each by the first player waited for
RECURSIVE PlayedOn(_, _)
PlayedOn(gameState, n) ==
    IF n = 0 \/ gameState.phase # "revealing" \/ gameState.waitingForPlayers = <<>>
    THEN gameState
    ELSE LET slot == Head(gameState.waitingForPlayers)
         IN  PlayedOn(revealCardOnline(gameState, slot,
                          Head(gameState.players[slot + 1].holeCards)), n - 1)

LifeInit ==
    /\ game = LifeGame
    /\ state = PlayedOn(startRevealRound(NewGame(game)), RevealsPlayed)
    /\ lastOp = [op |-> "startGame", client |-> 0]
    /\ game_rooms = (Room :> [host_id |-> PlayerIdOf(0), status |-> "playing"])
    /\ room_players = {[room_id |-> Room, player_id |-> PlayerIdOf(slot),
                        slot |-> slot, is_online |-> TRUE] : slot \in OnlineSeats}
    /\ clients = [slot \in OnlineSeats |->
                    Rendered([type |-> "playing",
                              gameState |-> state, mySlot |-> slot,
                              roomPlayers |-> getRoomPlayers(Room), timer |-> FALSE,
                              leaving |-> "no"])]
    /\ requests = {}
    /\ calls = [writes |-> 0, startRevealRoundOnline |-> 0, startNewGame |-> 0]
    /\ channel = [slot \in OnlineSeats |-> <<>>]

\* The update of game_rooms with a GameState and its status, removeOfflinePlayers
\* after a game that is finished, and the caller's setState
WriteAndSet(c, newState) ==
    LET status == IF newState.phase = "finished" THEN "finished" ELSE "playing"
        kept == IF newState.phase = "finished"
                THEN OnlineRows(room_players, Room) ELSE room_players
        updated == Notified(channel, RoomMessage(status, newState))
    IN  /\ state' = newState
        /\ game_rooms' = [game_rooms EXCEPT ![Room].status = status]
        /\ room_players' = kept
        /\ channel' = IF kept # room_players THEN Notified(updated, PlayersMessage)
                      ELSE updated
        /\ clients' = [clients EXCEPT ![c] =
                         Rendered([clients[c] EXCEPT !.gameState = newState])]

\* handleSelectCard with revealCardOnline, for the player's first hole card
SelectCard(c) ==
    LET me == clients[c]
    IN  /\ me.type = "playing"
        /\ me.gameState.phase = "revealing"
        /\ Includes(me.gameState.waitingForPlayers, me.mySlot)
        /\ me.gameState.players[me.mySlot + 1].holeCards # <<>>
        /\ ~Pending
        /\ calls.writes < MaxWrites
        /\ calls' = [calls EXCEPT !.writes = @ + 1]
        /\ WriteAndSet(c, revealCardOnline(me.gameState, me.mySlot,
                              Head(me.gameState.players[me.mySlot + 1].holeCards)))
        /\ lastOp' = OnlineOp("revealCardOnline", c)
        /\ UNCHANGED <<game, requests>>

\* The timer of the auto-play effect with autoPlayForOfflinePlayers
AutoPlay(c) ==
    LET me == clients[c]
    IN  /\ me.timer
        /\ Len(WaitingOffline(me.gameState, me.roomPlayers)) # 0
        /\ ~Pending
        /\ calls.writes < MaxWrites
        /\ calls' = [calls EXCEPT !.writes = @ + 1]
        /\ WriteAndSet(c, autoPlayForOfflinePlayers(me.gameState, me.roomPlayers))
        /\ lastOp' = OnlineOp("autoPlayForOfflinePlayers", c)
        /\ UNCHANGED <<game, requests>>

\* startRevealRoundOnline, which no component calls, called by a client with
\* its copy of the game: game_state is updated, status is not
StartRevealRoundOnline(c) ==
    LET me == clients[c]
    IN  /\ me.type = "playing"
        /\ me.gameState.phase = "revealing"
        /\ calls.startRevealRoundOnline < MaxRoundStarts
        /\ calls' = [calls EXCEPT !.startRevealRoundOnline = @ + 1]
        /\ state' = startRevealRound(me.gameState)
        /\ channel' = Notified(channel, RoomMessage(game_rooms[Room].status,
                                                    startRevealRound(me.gameState)))
        /\ lastOp' = OnlineOp("startRevealRoundOnline", c)
        /\ UNCHANGED <<game, game_rooms, room_players, clients, requests>>

\* Faulty variant of Renumbered: the slots stay as they are
NotRenumbered(rows, players, i) == rows

\* The loop of startNewGame over the players from index i: a player whose
\* slot is not its index is moved, unless another row has that slot
RECURSIVE Renumbered(_, _, _)
Renumbered(rows, players, i) ==
    IF i >= Len(players) THEN rows
    ELSE LET player == players[i + 1]
             moved == [player EXCEPT !.slot = i]
             free == ~\E p \in rows : p.room_id = player.room_id /\ p.slot = i
         IN  IF player.slot # i /\ player \in rows /\ free
             THEN Renumbered((rows \ {player}) \cup {moved}, players, i + 1)
             ELSE Renumbered(rows, players, i + 1)

PlayerNames(rows) == ArrayOf([k \in 1 .. Len(rows) |-> rows[k].player_id])

\* handleNextGame with startNewGame
StartNewGame(c) ==
    LET me == clients[c]
        cleaned == OnlineRows(room_players, Room)
        players == getRoomPlayers(Room)
        remaining == SelectSeq(players, LAMBDA p : p.is_online = TRUE)
        renumbered == Renumbered(cleaned, remaining, 0)
    IN  /\ me.type = "playing"
        /\ me.gameState.phase = "finished"
        /\ calls.startNewGame < MaxNewGames
        /\ ~Pending
        /\ calls' = [calls EXCEPT !.startNewGame = @ + 1]
        /\ IF Len(remaining) < 2
           THEN /\ room_players' = cleaned
                /\ channel' = IF cleaned # room_players
                              THEN Notified(channel, PlayersMessage) ELSE channel
                /\ lastOp' = OnlineOp("startNewGame failed", c)
                /\ UNCHANGED <<state, game_rooms, clients>>
           ELSE \E k \in NewDeals :
                  LET stateWithRound ==
                        startRevealRound(initializeGame(
                            PlayerNames(OrderBySlot({p \in renumbered : p.room_id = Room})),
                            "normal", shuffleDeck(createDeck, k)))
                      changed == IF renumbered # room_players
                                 THEN Notified(channel, PlayersMessage) ELSE channel
                  IN  /\ room_players' = renumbered
                      /\ state' = stateWithRound
                      /\ game_rooms' = [game_rooms EXCEPT ![Room].status = "playing"]
                      /\ channel' = Notified(changed,
                                             RoomMessage("playing", stateWithRound))
                      /\ clients' = [clients EXCEPT ![c] =
                                       Rendered([me EXCEPT !.gameState = stateWithRound])]
                      /\ lastOp' = OnlineOp("startNewGame", c)
        /\ UNCHANGED <<game, requests>>

LifeNext ==
    \/ \E c \in OnlineSeats : SelectCard(c)
    \/ \E c \in OnlineSeats : AutoPlay(c)
    \/ \E c \in OnlineSeats : StartRevealRoundOnline(c)
    \/ \E c \in OnlineSeats : StartNewGame(c)
    \/ \E c \in OnlineSeats : DeliverNotification(c)
    \/ \E c \in OnlineSeats : ~Pending /\ HandleLeave(c)
    \/ \E c \in OnlineSeats : LeaveToLobby(c)

LifeSpec == LifeInit /\ [][LifeNext]_vars

(***************************************************************************)
(* The online game with fairness.  In the game played seat 2 closed its    *)
(* browser as the game started, and the seats 1 and 2 are the weakest of   *)
(* the deal.  A timer that stays set fires, a call that was sent writes    *)
(* and returns, a notification on its way is delivered, and handleLeave    *)
(* goes on to the lobby; that a player chooses a card or leaves is left    *)
(* to the player.                                                          *)
(***************************************************************************)
FairGame == 11

FairSeats == 0 .. 2

FairInit ==
    /\ game = FairGame
    /\ state = startRevealRound(NewGame(game))
    /\ lastOp = [op |-> "startGame", client |-> 0]
    /\ game_rooms = (Room :> [host_id |-> PlayerIdOf(0), status |-> "playing"])
    /\ room_players = {[room_id |-> Room, player_id |-> PlayerIdOf(slot),
                        slot |-> slot, is_online |-> slot \notin Gone] :
                           slot \in OnlineSeats}
    /\ clients = [slot \in OnlineSeats |->
                    Rendered([type |-> IF slot \in Gone THEN "closed" ELSE "playing",
                              gameState |-> state, mySlot |-> slot,
                              roomPlayers |-> getRoomPlayers(Room), timer |-> FALSE,
                              leaving |-> "no"])]
    /\ requests = {}
    /\ calls = [revealCardOnline |-> 0, autoPlayForOfflinePlayers |-> 0]
    /\ channel = [slot \in OnlineSeats |-> <<>>]

FairNext ==
    \/ \E c \in OnlineSeats : HandleSelectCard(c)
    \/ \E c \in OnlineSeats : AutoPlayTimer(c)
    \/ \E r \in requests : WriteGameState(r)
    \/ \E r \in requests : ReceiveGameState(r)
    \/ \E c \in OnlineSeats : DeliverNotification(c)
    \/ \E c \in OnlineSeats : HandleLeave(c)
    \/ \E c \in OnlineSeats : LeaveToLobby(c)

\* The steps that are scheduled fairly, each told by the one variable it
\* changes as no other step of FairNext does, under the condition of its
\* action: AutoPlayTimer(c), DeliverNotification(c), LeaveToLobby(c),
\* WriteGameState(r) and ReceiveGameState(r)
TimerFires(c) ==
    /\ clients[c].timer
    /\ clients[c].gameState.currentRound < MaxRound
    /\ calls.autoPlayForOfflinePlayers < MaxAutoPlays
    /\ Calls(c, "autoPlayForOfflinePlayers") = {}
    /\ clients' = [clients EXCEPT ![c].timer = FALSE]

Delivered(c) ==
    /\ channel[c] # <<>>
    /\ channel' = [channel EXCEPT ![c] = Tail(channel[c])]

InLobby(c) ==
    /\ clients[c].leaving = "done"
    /\ clients' = [clients EXCEPT ![c].type = "lobby",
                                  ![c].timer = FALSE,
                                  ![c].leaving = "no"]

Written ==
    \E r \in requests :
        /\ r.stage = "sent"
        /\ requests' = (requests \ {r}) \cup {[r EXCEPT !.stage = "done"]}

Returned ==
    \E r \in requests :
        /\ r.stage = "done"
        /\ requests' = requests \ {r}

FairSpec ==
    /\ FairInit
    /\ [][FairNext]_vars
    /\ \A c \in FairSeats : WF_clients(TimerFires(c))
    /\ \A c \in FairSeats : WF_channel(Delivered(c))
    /\ \A c \in FairSeats : WF_clients(InLobby(c))
    /\ WF_requests(Written)
    /\ WF_requests(Returned)

(***************************************************************************)
(* initializeGame on its own: for every number of players, every           *)
(* difficulty and a range of deck orders (the shuffles, each cut at the    *)
(* first MaxCut places).                                                   *)
(***************************************************************************)
MaxCut == 3

Difficulties == {"normal", "hard", "hell", "nightmare"}

\* A deck order: the deck with its first n cards moved to the end
Cut(deck, n) == SubSeq(deck, n + 1, Len(deck)) \o SubSeq(deck, 1, n)

DealInit ==
    /\ state = NULL
    /\ game = 0
    /\ \E playerCount \in 2 .. 5, difficulty \in Difficulties,
          k \in DOMAIN Shuffles, n \in 0 .. MaxCut :
            lastOp = [op |-> "shuffleDeck",
                      playerNames |-> SubSeq(Names, 1, playerCount),
                      difficulty |-> difficulty,
                      deck |-> Cut(shuffleDeck(createDeck, k), n)]
    /\ game_rooms = <<>>
    /\ room_players = {}
    /\ clients = <<>>
    /\ requests = {}
    /\ calls = <<>>
    /\ channel = <<>>

InitializeGame ==
    /\ lastOp.op = "shuffleDeck"
    /\ state' = initializeGame(lastOp.playerNames, lastOp.difficulty, lastOp.deck)
    /\ lastOp' = [lastOp EXCEPT !.op = "initializeGame"]
    /\ UNCHANGED <<game, online>>

DealNext == InitializeGame

DealSpec == DealInit /\ [][DealNext]_vars

(***************************************************************************)
(* The hand evaluator on its own.  The hands are drawn from HandCards:     *)
(* the spades 2 3 4 5 6 A, the hearts 5 6 K, the five of diamonds and the  *)
(* five of clubs (ids 0..51 as createDeck numbers them), which hold hands  *)
(* of all nine categories, both straights with a five and a six on top,    *)
(* and kickers from 2 to 14.  evaluateHand is applied to two hands of five *)
(* cards, findBestHand to five or seven cards.                             *)
(***************************************************************************)
HandCards == {0, 1, 2, 3, 4, 12, 16, 17, 24, 29, 42}

RECURSIVE Ascending(_)
Ascending(cardSet) ==
    IF cardSet = {} THEN <<>>
    ELSE LET low == CHOOSE c \in cardSet : \A d \in cardSet : c <= d
         IN  <<low>> \o Ascending(cardSet \ {low})

RECURSIVE Reversed(_)
Reversed(cards) ==
    IF cards = <<>> THEN <<>> ELSE Append(Reversed(Tail(cards)), Head(cards))

\* The sets of n cards of HandCards
Drawn(n) == {h \in SUBSET HandCards : Cardinality(h) = n}

HandOp(name) == [op |-> name, changed |-> TRUE]

HandInit ==
    /\ \/ \E a \in Drawn(5), b \in Drawn(5) :
             state = [hands |-> <<Ascending(a), Reversed(Ascending(b))>>,
                      results |-> <<>>]
       \/ \E h \in Drawn(5) \cup Drawn(7), order \in BOOLEAN :
             state = [hands |-> <<IF order THEN Ascending(h)
                                  ELSE Reversed(Ascending(h))>>,
                      results |-> <<>>]
    /\ game = 0
    /\ lastOp = HandOp("cards")
    /\ game_rooms = <<>>
    /\ room_players = {}
    /\ clients = <<>>
    /\ requests = {}
    /\ calls = <<>>
    /\ channel = <<>>

\* evaluateHand, applied to each of two hands
EvaluateHand ==
    /\ Len(state.hands) = 2
    /\ state.results = <<>>
    /\ state' = [state EXCEPT !.results = <<evaluateHand(state.hands[1]),
                                            evaluateHand(state.hands[2])>>]
    /\ lastOp' = HandOp("evaluateHand")
    /\ UNCHANGED <<game, online>>

FindBestHand ==
    /\ Len(state.hands) = 1
    /\ state.results = <<>>
    /\ state' = [state EXCEPT !.results = <<findBestHand(state.hands[1])>>]
    /\ lastOp' = HandOp("findBestHand")
    /\ UNCHANGED <<game, online>>

HandNext == EvaluateHand \/ FindBestHand

HandSpec == HandInit /\ [][HandNext]_vars

(***************************************************************************)
(* Properties of the online mode.                                          *)
(***************************************************************************)
Quiet == requests = {} /\ \A c \in DOMAIN channel : channel[c] = <<>>

\* C11: whenever no call is in progress and no notification is on its way,
\* the GameState of every subscribed client is the game_state of the room
C11_ClientsAgree ==
    (Quiet /\ Room \in DOMAIN game_rooms) =>
        \A c \in OnlineSeats : Subscribed(c) => clients[c].gameState = state

\* The calls of revealCardOnline by two waiting seats in one round, r being
\* written by this step and q written before it
RacingReveals(r, q) ==
    /\ lastOp' = OnlineOp("revealCardOnline", r.client)
    /\ r.kind = "revealCardOnline" /\ r.stage = "sent"
    /\ q.kind = "revealCardOnline" /\ q.stage = "done"
    /\ q.client # r.client
    /\ q.currentState.currentRound = r.currentState.currentRound
    /\ Includes(r.currentState.waitingForPlayers, r.client)
    /\ Includes(q.currentState.waitingForPlayers, q.client)
    /\ Room \in DOMAIN game_rooms

Revealed(gameState, slot, cardId) ==
    Includes(gameState.players[slot + 1].revealedHoleCards, cardId)

C12_Step ==
    \A r \in requests : \A q \in requests :
        RacingReveals(r, q) =>
            /\ Revealed(state', r.client, r.cardId)
            /\ Revealed(state', q.client, q.cardId)
            /\ state'.currentRound = r.currentState.currentRound =>
                  /\ ~Includes(state'.waitingForPlayers, r.client)
                  /\ ~Includes(state'.waitingForPlayers, q.client)

\* C12: when two waiting seats reveal a card in the same round, each from its
\* own client, the room's GameState after the second write has both cards
\* revealed and neither seat waiting
C12_BothRevealsKept == [][C12_Step]_vars

C13_Step ==
    DOMAIN state'.players = DOMAIN state.players =>
      /\ \A k \in DOMAIN state.players :
            \A card \in Range(state.players[k].revealedHoleCards) :
                ~Includes(state'.players[k].holeCards, card)
      /\ state'.currentRound = state.currentRound =>
            \A id \in Range(state'.waitingForPlayers) :
                Includes(state.waitingForPlayers, id)

\* C13: from one GameState of the room to the next, no revealed card is back
\* among the hole cards of its player, and within a round no seat that was
\* not waiting is waiting again
C13_ProgressKept == [][C13_Step]_vars

EventRounds(history) == {history[k].round : k \in DOMAIN history}

\* The rounds of a game as lib/game.ts plays them: one event per round in
\* which a card was revealed, and currentRound the number of rounds closed
RoundsInOrder(gameState) ==
    /\ \A i \in DOMAIN gameState.revealHistory :
          \A j \in DOMAIN gameState.revealHistory :
              gameState.revealHistory[i].round = gameState.revealHistory[j].round
                  => i = j
    /\ 0 .. (gameState.currentRound - 1) \subseteq EventRounds(gameState.revealHistory)
    /\ EventRounds(gameState.revealHistory) \subseteq 0 .. gameState.currentRound

\* C14: every GameState of the room keeps each player's cards partitioned
\* into door, hole and revealed cards, has one reveal event per round at
\* most, and a currentRound that counts the closed rounds once each
C14_WrittenStatesSound == C1_Partition /\ RoundsInOrder(state)

Closing(r) == r.newState.currentRound = r.currentState.currentRound + 1

\* two clients closed the same round, and both results were written
C14_Witness ==
    \E r \in requests : \E q \in requests :
        /\ r.client # q.client
        /\ r.stage = "done" /\ q.stage = "done"
        /\ Closing(r) /\ Closing(q)
        /\ r.currentState.currentRound = q.currentState.currentRound
        /\ r.newState # q.newState
        /\ state = q.newState

(***************************************************************************)
(* Properties of the waiting rooms.                                        *)
(***************************************************************************)
RowOf(rows, roomId, playerId) ==
    {p \in rows : p.room_id = roomId /\ p.player_id = playerId}

FreeSlots(rows, roomId) ==
    {k \in 0 .. 4 : \A p \in rows : p.room_id = roomId => p.slot # k}

Lowest(slots) == CHOOSE k \in slots : \A other \in slots : k <= other

\* A call that has read the players of its room, while no other call has
\* changed them since
Undisturbed(r) == r.players = RowsOf(r.roomId)

JoinedBy(c) == lastOp'.client = c /\ lastOp'.result = "joined"

C15_Created(c) ==
    lastOp'.op = "createRoom" /\ JoinedBy(c) =>
        /\ clients'[c].type = "waiting" /\ clients'[c].mySlot = 0
        /\ clients'[c].room \in DOMAIN game_rooms'
        /\ game_rooms'[clients'[c].room].host_id = c
        /\ \E p \in room_players' \ room_players :
              p.room_id = clients'[c].room /\ p.player_id = c /\ p.slot = 0

C15_Joined(c) ==
    \A r \in requests :
        /\ lastOp'.op = "joinRoomById" /\ JoinedBy(c)
        /\ r.client = c /\ Undisturbed(r)
        => /\ FreeSlots(room_players, r.roomId) # {}
           /\ room_players' \ room_players =
                 {Row(r.roomId, c, Lowest(FreeSlots(room_players, r.roomId)))}
           /\ clients'[c].mySlot = Lowest(FreeSlots(room_players, r.roomId))

C15_Rejoined(c) ==
    lastOp'.op = "joinRoomById" /\ lastOp'.client = c /\ lastOp'.result = "existing" =>
        /\ room_players' = room_players
        /\ \E p \in RowOf(room_players, clients'[c].room, c) :
              clients'[c].mySlot = p.slot

C15_Step == \A c \in Visitors : C15_Created(c) /\ C15_Joined(c) /\ C15_Rejoined(c)

C16_SeatsDistinct ==
    /\ \A p \in room_players : \A q \in room_players :
          /\ p.room_id = q.room_id
          /\ p.slot = q.slot \/ p.player_id = q.player_id
          => p = q
    /\ \A p \in room_players : p.slot \in 0 .. 4
    /\ \A id \in RoomIds : Cardinality(RowsOf(id)) <= 5

\* Two players joined at the same time and chose the last free slot both: the
\* room is full with the first, and the insert of the second was rejected
C16_Witness ==
    /\ lastOp.op = "joinRoomById" /\ lastOp.result = "rejected"
    /\ clients[lastOp.client].type = "lobby"
    /\ \E id \in RoomIds :
          /\ Cardinality(RowsOf(id)) = 5
          /\ RowOf(room_players, id, lastOp.client) = {}

\* The last step of a leaveRoom call that no other call has disturbed: the
\* room and its players are as the call has read them
Leaving(r) ==
    /\ r.kind = "leaveRoom" /\ r.stage = "remaining"
    /\ lastOp'.op = "leaveRoom" /\ lastOp'.client = r.client
    /\ r \notin requests'
    /\ Undisturbed(r)
    /\ r.roomId \in DOMAIN game_rooms
    /\ game_rooms[r.roomId].host_id = r.host_id

C17_RowDeleted(r) == RowOf(room_players', r.roomId, r.client) = {}

C17_EmptyRoomDeleted(r) == RowsOf(r.roomId) = {} => r.roomId \notin DOMAIN game_rooms'

C17_HostLeft(r) ==
    RowsOf(r.roomId) # {} =>
        /\ r.roomId \in DOMAIN game_rooms'
        /\ game_rooms'[r.roomId].host_id =
              IF game_rooms[r.roomId].host_id = r.client
              THEN (CHOOSE p \in RowsOf(r.roomId) :
                       \A q \in RowsOf(r.roomId) : p.slot <= q.slot).player_id
              ELSE game_rooms[r.roomId].host_id

C17_Step ==
    \A r \in requests :
        Leaving(r) => C17_RowDeleted(r) /\ C17_EmptyRoomDeleted(r) /\ C17_HostLeft(r)

\* C17: leaveRoom in a waiting room deletes the row of the player who leaves;
\* it deletes the room if no player remains; if the player who leaves was the
\* host, the remaining player with the lowest slot becomes the host; otherwise
\* the host stays
C17_LeaveRoom == [][C17_Step]_vars

(***************************************************************************)
(* Properties of players who leave a game, and of auto-play for them.      *)
(***************************************************************************)
OnlineOthers(c) ==
    {p \in RowsOf(Room) : p.player_id # PlayerIdOf(c) /\ p.is_online = TRUE}

Disconnects(c) ==
    /\ lastOp'.op \in {"markPlayerOffline", "handleBeforeUnload"}
    /\ lastOp'.client = c
    /\ clients[c].type = "playing"
    /\ Room \in DOMAIN game_rooms /\ game_rooms[Room].status = "playing"
    /\ OnlineOthers(c) # {}

C18_Step ==
    \A c \in OnlineSeats :
        Disconnects(c) =>
            /\ \A p \in RowsOf(Room) :
                  p.player_id = PlayerIdOf(c) =>
                      [p EXCEPT !.is_online = FALSE] \in room_players'
            /\ \A p \in room_players' :
                  p.player_id = PlayerIdOf(c) => p.is_online = FALSE
            /\ state' = state
            /\ game_rooms' = game_rooms

\* C18: when a player leaves a game that is being played, or closes the
\* browser, while another player of the room is online, the player's row stays
\* in room_players with is_online false, and the room's GameState is unchanged
C18_DisconnectKeepsSeat == [][C18_Step]_vars

\* A player has left in the middle of a round in which the player's card is
\* waited for, and another player is online
C18_Witness ==
    /\ lastOp.op = "markPlayerOffline"
    /\ state.phase = "revealing"
    /\ Includes(state.waitingForPlayers, lastOp.client)
    /\ OnlineOthers(lastOp.client) # {}
    /\ \E p \in RowsOf(Room) :
          p.player_id = PlayerIdOf(lastOp.client) /\ p.is_online = FALSE

\* The trigger client: the online player of the room with the lowest slot
IsTrigger(c) ==
    \E p \in RowsOf(Room) :
        /\ p.slot = c /\ p.is_online = TRUE
        /\ \A q \in RowsOf(Room) : q.is_online = TRUE => p.slot <= q.slot

Scheduled == {c \in OnlineSeats : clients[c].timer}

AutoPlaying == {r.client : r \in {q \in requests : q.kind = "autoPlayForOfflinePlayers" /\ q.stage = "sent"}}

\* C19: one client at most has auto-play scheduled, the client that has is
\* the online player with the lowest slot, and no other player's client is
\* sending an auto-play write
C19_OneTrigger ==
    /\ Cardinality(Scheduled) <= 1
    /\ \A c \in Scheduled : IsTrigger(c)
    /\ \A c \in AutoPlaying : IsTrigger(c)

\* A seat that a list of the room's players does not show as online
OfflineSeat(roomPlayers, slot) ==
    \A k \in DOMAIN roomPlayers :
        roomPlayers[k].slot = slot => roomPlayers[k].is_online # TRUE

\* The players of the room as the client that makes a call knows them
KnownTo(r) == clients[r.client].roomPlayers

AutoPlayed(r) ==
    /\ r.kind = "autoPlayForOfflinePlayers"
    /\ r.stage = "sent"
    /\ r \notin requests

\* What the call does with the cards of the player of a slot
C20_Cards(r, slot) ==
    LET before == r.currentState.players[slot + 1]
        after == r.newState.players[slot + 1]
    IN  IF /\ Includes(r.currentState.waitingForPlayers, slot)
           /\ OfflineSeat(KnownTo(r), slot)
        THEN /\ before.holeCards # <<>>
             /\ after.holeCards = Tail(before.holeCards)
             /\ after.revealedHoleCards =
                   Append(before.revealedHoleCards, Head(before.holeCards))
             /\ after.doorCards = before.doorCards
        ELSE after = before

C20_RoundClosed(r) ==
    (\A slot \in Range(r.currentState.waitingForPlayers) :
        OfflineSeat(KnownTo(r), slot)) =>
        /\ r.newState.currentRound = r.currentState.currentRound + 1
        /\ r.newState.phase \in {"revealing", "finished"}
        /\ r.newState.phase = "revealing" => r.newState.waitingForPlayers # <<>>
        /\ r.newState.phase = "finished" => r.newState.winner # NULL

C20_Step ==
    /\ \A r \in requests' :
          AutoPlayed(r) =>
              /\ \A slot \in OnlineSeats : C20_Cards(r, slot)
              /\ C20_RoundClosed(r)
    /\ \A r \in requests :
          AutoPlayed(r)' /\ r.kind = "autoPlayForOfflinePlayers" /\ r.stage = "sent" =>
              state' = r.newState

AutoRevealed(r) ==
    {slot \in OnlineSeats :
        r.newState.players[slot + 1].revealedHoleCards #
            r.currentState.players[slot + 1].revealedHoleCards}

C21_Step ==
    \A r \in requests' :
        AutoPlayed(r) =>
            \A slot \in AutoRevealed(r) :
                /\ r.currentState.currentRound = state.currentRound
                /\ Includes(state.waitingForPlayers, slot)
                /\ OfflineSeat(getRoomPlayers(Room), slot)

\* C21: when the timer of auto-play expires, the call reveals a card only for
\* a player who, in the room as it is persisted at that time, is still
\* waited for in the same round and still offline; it writes no state that
\* it derived from what the room was before the delay
C21_RecheckedAfterDelay == [][C21_Step]_vars

NobodyOnline == \A p \in RowsOf(Room) : p.is_online # TRUE

\* C22: when every player of a game that is being played has left or closed
\* the page, the room and the rows of its players are deleted
C22_AllOfflineRemoved ==
    NobodyOnline => Room \notin DOMAIN game_rooms /\ RowsOf(Room) = {}

\* The calls of createRoom and joinRoomById whose insert into room_players
\* this step has seen rejected
Rejected ==
    {r \in requests \ requests' :
        /\ r.kind \in {"createRoom", "joinRoomById"}
        /\ lastOp'.client = r.client
        /\ lastOp'.result = "rejected"}

C24_Step ==
    \A r \in Rejected :
        /\ clients'[r.client] = clients[r.client]
        /\ room_players' = room_players
        /\ r.kind = "createRoom" => r.roomId \notin DOMAIN game_rooms'

\* C24: when a write of createRoom or joinRoomById fails, the caller stays
\* where it was and the rooms and their players are as they were before the
\* call: a room that the call has created is not in game_rooms
C24_NothingCommitted == [][C24_Step]_vars

\* Seat slot is waited for in the game the room holds, its player is
\* offline, and a player of the room is online
WaitedOffline(slot) ==
    /\ Room \in DOMAIN game_rooms
    /\ state.phase = "revealing"
    /\ Includes(state.waitingForPlayers, slot)
    /\ \E p \in RowsOf(Room) : p.slot = slot /\ p.is_online # TRUE
    /\ \E p \in RowsOf(Room) : p.is_online = TRUE

\* A timer of auto-play is set that the bounds of the model keep from firing
TimerStopped ==
    \E c \in DOMAIN clients :
        /\ clients[c].timer
        /\ \/ calls.autoPlayForOfflinePlayers >= MaxAutoPlays
           \/ clients[c].gameState.currentRound >= MaxRound

\* C27: when a seat that is waited for is offline while a player of the room
\* is online, then, timers, writes and notifications being scheduled
\* fairly, the room eventually holds a game in which the seat has revealed
\* its card and is not waited for (or nobody is online any more)
C27_OfflineAutoPlayed ==
    \A slot \in FairSeats :
        WaitedOffline(slot) ~> (~WaitedOffline(slot) \/ TimerStopped)

(***************************************************************************)
(* Properties of the hand evaluator.                                       *)
(***************************************************************************)
\* The number calculateStrength returns, base * 10000000000 + kick, written
\* in two digits of base 1000000, and the order of such numbers
Scalar(strength) ==
    <<strength.base * 10000 + strength.kick \div 1000000, strength.kick % 1000000>>

ScalarLess(x, y) == x[1] < y[1] \/ (x[1] = y[1] /\ x[2] < y[2])

\* Whether hand a has a lower strength than hand b
Weaker(a, b) == ScalarLess(Scalar(a.strength), Scalar(b.strength))

\* The lexicographic order of kicker lists, most significant first
LexLess(x, y) ==
    \/ \E i \in 1 .. Min2(Len(x), Len(y)) :
          x[i] < y[i] /\ \A j \in 1 .. (i - 1) : x[j] = y[j]
    \/ Len(x) < Len(y) /\ \A j \in 1 .. Len(x) : x[j] = y[j]

Category(hand) == HAND_RANK_VALUES[hand.rank]

Evaluated == lastOp.op = "evaluateHand"

\* C28: of two hands of five cards the one of the higher category has the
\* higher strength, whatever the kickers; with equal categories the
\* strength is lower exactly when the list of kickers is lexicographically
\* lower; the comparison of strengths made by the code is that of the numbers
C28_StrengthOrdersHands ==
    Evaluated =>
        LET a == state.results[1]
            b == state.results[2]
        IN  /\ Category(a) < Category(b) => Weaker(a, b)
            /\ Category(a) > Category(b) => Weaker(b, a)
            /\ Category(a) = Category(b) =>
                  /\ Weaker(a, b) <=> LexLess(a.kickers, b.kickers)
                  /\ Weaker(b, a) <=> LexLess(b.kickers, a.kickers)
            /\ StrengthLess(a.strength, b.strength) <=> Weaker(a, b)
            /\ StrengthLess(b.strength, a.strength) <=> Weaker(b, a)

\* A pair of fives with ace, king and six was compared with a pair of sixes
\* with four, three and two: the lower pair loses although each of its other
\* kickers is higher
C28_Witness ==
    /\ Evaluated
    /\ state.results[1].kickers = <<5, 14, 13, 6>>
    /\ state.results[2].kickers = <<6, 4, 3, 2>>
    /\ state.results[1].rank = "one-pair"
    /\ state.results[2].rank = "one-pair"
    /\ Weaker(state.results[1], state.results[2])

\* The ace-low straight that is not a flush: ace, 2, 3, 4, 5
Wheel(cards) ==
    /\ {CardRank(c) : c \in Range(cards)} = {14, 2, 3, 4, 5}
    /\ ~isFlush(cards)

Straights == {"straight", "straight-flush"}

\* C29 with "above any non-straight hand" as it is worded: the ace-low
\* straight is a straight with kickers <<5>>, below every straight that has
\* a six or more on top, and above every hand that is neither a straight
\* nor a straight flush
C29_AboveNonStraights ==
    (Evaluated /\ Wheel(state.hands[1])) =>
        LET a == state.results[1]
            b == state.results[2]
        IN  /\ a.rank = "straight" /\ a.kickers = <<5>>
            /\ (b.rank = "straight" /\ b.kickers[1] >= 6) => Weaker(a, b)
            /\ b.rank \notin Straights => Weaker(b, a)

\* C29: the ace-low straight (ace, 2, 3, 4, 5, not of one suit) is a straight
\* with high card 5 and kickers <<5>>; it is below every straight that has a
\* six or more on top and below every hand of a higher category (flush, full
\* house, four of a kind, straight flush), equal to another ace-low straight,
\* and above every hand of a lower category (three of a kind, two pair, one
\* pair, high card)
C29_AceLowStraight ==
    (Evaluated /\ Wheel(state.hands[1])) =>
        LET a == state.results[1]
            b == state.results[2]
        IN  /\ a.rank = "straight" /\ a.kickers = <<5>>
            /\ isStraight(state.hands[1]) = [isStraight |-> TRUE, highCard |-> 5]
            /\ (b.rank = "straight" /\ b.kickers[1] >= 6) => Weaker(a, b)
            /\ Category(b) > Category(a) => Weaker(a, b)
            /\ Wheel(state.hands[2]) => ~Weaker(a, b) /\ ~Weaker(b, a)
            /\ Category(b) < Category(a) => Weaker(b, a)

\* The ace-low straight was compared with a straight from 2 to 6 that is
\* not a flush
C29_Witness ==
    /\ Evaluated
    /\ Wheel(state.hands[1])
    /\ state.results[2].rank = "straight"
    /\ state.results[2].kickers = <<6>>
    /\ Weaker(state.results[1], state.results[2])

\* The hands of five cards out of the given cards
FiveOf(cards) == {Ascending(h) : h \in {x \in SUBSET Range(cards) : Cardinality(x) = 5}}

\* C30: the hand findBestHand returns for seven cards has five of these
\* cards and a strength that no five of the seven cards exceed under
\* evaluateHand; for five cards it is the result of evaluateHand
C30_BestOfSeven ==
    lastOp.op = "findBestHand" =>
        LET cards == state.hands[1]
            best == state.results[1]
        IN  /\ \A five \in FiveOf(cards) : ~Weaker(best, evaluateHand(five))
            /\ Range(best.cards) \subseteq Range(cards)
            /\ Len(best.cards) = 5
            /\ Cardinality(Range(best.cards)) = 5
            /\ best = evaluateHand(best.cards)
            /\ Len(cards) = 5 => best = evaluateHand(cards)

\* The best hand of seven cards is stronger than their first five cards
C30_Witness ==
    /\ lastOp.op = "findBestHand"
    /\ Len(state.hands[1]) = 7
    /\ Weaker(evaluateHand(SubSeq(state.hands[1], 1, 5)), state.results[1])
    /\ Range(state.results[1].cards) # Range(SubSeq(state.hands[1], 1, 5))

(***************************************************************************)
(* Properties of the end of a game and of the next game.                   *)
(***************************************************************************)
\* The players of the room who are online, in the order of their slots
Occupants == OrderBySlot({p \in RowsOf(Room) : p.is_online = TRUE})

C23_Step ==
    lastOp'.op = "startNewGame" =>
        LET occupants == Occupants
            k == Len(occupants)
        IN  /\ {p \in room_players' : p.room_id = Room} =
                   {[occupants[i] EXCEPT !.slot = i - 1] : i \in 1 .. k}
            /\ state'.phase = "revealing"
            /\ state'.currentRound = 0
            /\ state'.revealHistory = <<>>
            /\ state'.winner = NULL
            /\ Len(state'.players) = k
            /\ \A i \in 1 .. k : state'.players[i].name = occupants[i].player_id
            /\ game_rooms'[Room].status = "playing"

RECURSIVE DealtFrom(_, _)
DealtFrom(gameState, k) ==
    IF k > Len(gameState.players) THEN gameState.deadCards
    ELSE gameState.players[k].doorCards \o gameState.players[k].holeCards
         \o gameState.players[k].revealedHoleCards \o DealtFrom(gameState, k + 1)

\* C26: initializeGame deals every card of the deck exactly once, to the
\* door cards and hole cards of the players and to the dead cards, and each
\* seat gets the numbers of door and hole cards of its configuration (seat
\* 0 of the chosen difficulty, the others of normal)
C26_DealtOnce ==
    lastOp.op = "initializeGame" =>
        LET dealt == DealtFrom(state, 1)
        IN  /\ Len(dealt) = DeckSize
            /\ Range(dealt) = CardIds
            /\ Len(state.players) = Len(lastOp.playerNames)
            /\ \A k \in DOMAIN state.players :
                  LET config == DIFFICULTY_CONFIGS[IF k = 1 THEN lastOp.difficulty
                                                  ELSE "normal"]
                  IN  /\ Len(state.players[k].doorCards) = config.doorCards
                      /\ Len(state.players[k].holeCards) = config.holeCards
                      /\ state.players[k].revealedHoleCards = <<>>

\* Five players were dealt in nightmare: seat 0 has five door cards and no
\* hole card, and seven cards are dead
C26_Witness ==
    /\ lastOp.op = "initializeGame"
    /\ lastOp.difficulty = "nightmare"
    /\ Len(state.players) = 5
    /\ state.players[1].holeCards = <<>>
    /\ Len(state.deadCards) = 7

\* C25: the status of the room is finished exactly when the phase of its
\* GameState is finished, and playing exactly when the room has a GameState
\* of another phase
C25_StatusMirrorsPhase ==
    /\ game_rooms[Room].status \in {"playing", "finished"}
    /\ game_rooms[Room].status = "finished" <=> state.phase = "finished"

(***************************************************************************)
(* The start of a game in a waiting room: the joins and departures of       *)
(* RoomSpec until the host starts the game.                                 *)
(***************************************************************************)
\* players.sort((a, b) => a.slot - b.slot).map((p) => p.player_name); a
\* player's name stands for its player_id here
SeatedNames(players) ==
    LET sorted == OrderBySlot(players)
    IN  ArrayOf([k \in 1 .. Len(sorted) |-> sorted[k].player_id])

NoGameStarted == \A id \in DOMAIN game_rooms : game_rooms[id].status = "waiting"

\* handleStartGame with startGame; state.players is the client's copy of the
\* rows of the room, taken to be up to date
StartGame(c) ==
    LET roomId == clients[c].room
        players == RowsOf(roomId)
        allowed == /\ roomId \in DOMAIN game_rooms
                   /\ game_rooms[roomId].host_id = c
                   /\ Cardinality(players) >= 2
                   /\ Cardinality(players) <= 5
    IN  /\ clients[c].type = "waiting"
        /\ Idle(c)
        /\ NoGameStarted
        /\ IF allowed
           THEN \E k \in NewDeals :
                  LET stateWithRound ==
                        startRevealRound(initializeGame(SeatedNames(players), "normal",
                                                        shuffleDeck(createDeck, k)))
                  IN  /\ state' = stateWithRound
                      /\ game_rooms' = [game_rooms EXCEPT ![roomId].status = "playing"]
                      /\ clients' = [clients EXCEPT ![c].type = "playing"]
                      /\ lastOp' = RoomOp("startGame", c, "started")
           ELSE /\ lastOp' = RoomOp("startGame", c, "failed")
                /\ UNCHANGED <<state, game_rooms, clients>>
        /\ UNCHANGED <<game, room_players, requests, calls, channel>>

StartNext ==
    \/ NoGameStarted /\ RoomNext
    \/ \E c \in Visitors : StartGame(c)

\* The lobby before any room is created
StartInit == RoomInit /\ DOMAIN game_rooms = {}

StartSpec == StartInit /\ [][StartNext]_vars

(***************************************************************************)
(* Properties of the reveal history and of the rounds.                     *)
(***************************************************************************)
IsPrefix(x, y) == Len(x) <= Len(y) /\ \A i \in DOMAIN x : y[i] = x[i]

\* The (playerId, card) pairs of the cards that a step reveals
NewlyRevealed ==
    UNION {{[playerId |-> state.players[k].id, card |-> c] :
               c \in Range(state'.players[k].revealedHoleCards)
                        \ Range(state.players[k].revealedHoleCards)} :
           k \in DOMAIN state.players}

\* The pairs of the events of round r in a history
PairsOf(history, r) ==
    UNION {Range(history[k].cards) : k \in {j \in DOMAIN history : history[j].round = r}}

AllPairs(history) == UNION {Range(history[k].cards) : k \in DOMAIN history}

OneEventPerRound(history) ==
    \A j, k \in DOMAIN history : history[j].round = history[k].round => j = k

C31_Step ==
    /\ IsPrefix([k \in DOMAIN state.revealHistory |-> state.revealHistory[k].round],
                [k \in DOMAIN state'.revealHistory |-> state'.revealHistory[k].round])
    /\ \A k \in DOMAIN state.revealHistory :
          /\ IsPrefix(state.revealHistory[k].cards, state'.revealHistory[k].cards)
          /\ state.revealHistory[k].round < state.currentRound =>
                state'.revealHistory[k] = state.revealHistory[k]
    /\ OneEventPerRound(state'.revealHistory)
    /\ AllPairs(state'.revealHistory) \ AllPairs(state.revealHistory) = NewlyRevealed
    /\ NewlyRevealed \subseteq PairsOf(state'.revealHistory, state.currentRound)

\* C31: the reveal history only grows: no step removes or changes the event
\* of an earlier round or a pair of any event, there is one event at most
\* for a round, and the pairs a step adds are those of the cards it reveals,
\* added to the event of the round that was current
C31_HistoryAppendOnly == [][C31_Step]_vars

\* The cards that the events of the rounds from r on record for a player
RecordedFrom(history, r, playerId) ==
    {pair.card : pair \in {q \in UNION {Range(history[k].cards) :
                                  k \in {j \in DOMAIN history : history[j].round >= r}} :
                              q.playerId = playerId}}

\* The players as they were when round r began: the cards recorded from
\* round r on are hole cards again
Rewound(st, r) ==
    ArrayOf([k \in DOMAIN st.players |->
        LET player == st.players[k]
            later == RecordedFrom(st.revealHistory, r, player.id)
        IN  [player EXCEPT
               !.holeCards = player.holeCards \o
                   SelectSeq(player.revealedHoleCards, LAMBDA c : c \in later),
               !.revealedHoleCards =
                   SelectSeq(player.revealedHoleCards, LAMBDA c : c \notin later)]])

\* The waiting set computed at the start of round r
WaitedAtStart(st, r) ==
    LET weakestPlayers == findWeakestPlayers(Rewound(st, r))
    IN  {weakestPlayers[k].id : k \in DOMAIN weakestPlayers}

OneCardPerPlayer(event) ==
    \A i, j \in DOMAIN event.cards :
        event.cards[i].playerId = event.cards[j].playerId => i = j

RoundsAsRequired(st) ==
    \A k \in DOMAIN st.revealHistory :
        LET event == st.revealHistory[k]
        IN  /\ OneCardPerPlayer(event)
            /\ event.round < st.currentRound =>
                  {event.cards[i].playerId : i \in DOMAIN event.cards}
                      = WaitedAtStart(st, event.round)

\* C32: the event of a round holds one card at most for a player, and the
\* event of a round that has closed holds a card for each player of the
\* waiting set computed when the round began and for no other player
C32_OneCardEach == RoundsAsRequired(state)

\* A round in which two players had to act has closed
C32_Witness ==
    \E k \in DOMAIN state.revealHistory :
        /\ state.revealHistory[k].round < state.currentRound
        /\ Len(state.revealHistory[k].cards) = 2

\* C33: once the phase is showdown or finished no player holds a hole card
C33_NoHoleCardsAtShowdown ==
    state.phase \in {"showdown", "finished"} =>
        \A k \in DOMAIN state.players : Len(state.players[k].holeCards) = 0

\* A game that was decided after its players revealed hole cards
C33_Witness ==
    /\ state.phase = "finished"
    /\ \E k \in DOMAIN state.players : Len(state.players[k].revealedHoleCards) > 0

C34_Step ==
    lastOp'.op = "startRevealRound" =>
        /\ startRevealRound(state') = state'
        /\ state'.players = state.players
        /\ state'.deadCards = state.deadCards
        /\ state'.currentRound = state.currentRound
        /\ state'.revealHistory = state.revealHistory
        /\ state'.winner = state.winner

\* C34: startRevealRound applied to its own result changes nothing, and it
\* never changes players, deadCards, currentRound, revealHistory or winner
C34_StartRevealRoundIdempotent == [][C34_Step]_vars

\* startRevealRound has named the players of a round
C34_Witness ==
    /\ lastOp.op = "startRevealRound"
    /\ lastOp.changed
    /\ Len(state.waitingForPlayers) > 0

WaitingSound(st) ==
    /\ \A i, j \in DOMAIN st.waitingForPlayers :
          st.waitingForPlayers[i] = st.waitingForPlayers[j] => i = j
    /\ \A i \in DOMAIN st.waitingForPlayers :
          \E k \in DOMAIN st.players :
              /\ st.players[k].id = st.waitingForPlayers[i]
              /\ Len(st.players[k].holeCards) >= 1

\* C35: while the phase is revealing, waitingForPlayers names no player
\* twice, and each id it holds is the id of a player of the game who holds a
\* hole card
C35_WaitingSound == state.phase = "revealing" => WaitingSound(state)

\* Two players are waited for, after a round in which a player revealed
C35_Witness ==
    /\ state.phase = "revealing"
    /\ Len(state.waitingForPlayers) = 2
    /\ state.currentRound > 0

(***************************************************************************)
(* Properties of the GameState that the functions of the online mode write. *)
(***************************************************************************)
AtRest(st) ==
    \/ st.phase = "finished"
    \/ st.phase = "revealing" /\ Len(st.waitingForPlayers) > 0

\* C36: the GameState stored in the room is finished, or revealing with a
\* player waited for: no function stores a GameState in showdown or a
\* revealing one that waits for nobody
C36_WrittenAtRest == AtRest(state)

\* revealCardOnline has written the GameState of a game whose last hole card
\* was revealed
C36_Witness ==
    /\ lastOp.op = "revealCardOnline"
    /\ state.phase = "finished"
    /\ state.winner # NULL

(***************************************************************************)
(* Properties of the cards of a player.                                    *)
(***************************************************************************)
FaceUp(player) == Len(player.doorCards) + Len(player.revealedHoleCards)

\* C37: whatever the difficulty and the number of players, a player always
\* has five cards or more face up, door cards and revealed hole cards
\* together, and ten cards or fewer in all
C37_FiveToTenCards ==
    \A k \in DOMAIN state.players :
        /\ FaceUp(state.players[k]) >= 5
        /\ FaceUp(state.players[k]) + Len(state.players[k].holeCards) <= 10

\* In a game of difficulty hell the first player has revealed both hole cards
C37_Witness ==
    \E k \in DOMAIN state.players :
        /\ Len(state.players[k].doorCards) = 8
        /\ Len(state.players[k].revealedHoleCards) = 2

(***************************************************************************)
(* Properties of the rooms after departures and at the start of a game.    *)
(***************************************************************************)
HostPresent(roomId) ==
    RowsOf(roomId) # {} =>
        \E p \in RowsOf(roomId) : p.player_id = game_rooms[roomId].host_id

Inhabited(roomId) == RowsOf(roomId) # {}

Departure(op) == op.op \in {"leaveRoom", "handleBeforeUnload"}

C38_Step ==
    Departure(lastOp') /\ requests' = {} =>
        \A roomId \in DOMAIN game_rooms' :
            HostPresent(roomId)' /\ Inhabited(roomId)'

\* C38: when the departures from waiting rooms are over, calls of leaveRoom
\* and deletions sent as the page unloads in any interleaving, the host_id of
\* a room with occupants is the player_id of one of them, and a room without
\* occupants exists no more
C38_HostAmongOccupants == [][C38_Step]_vars

GameStarted(op) == op.op = "startGame" /\ op.result = "started"

SeatIsId(row) ==
    \E k \in DOMAIN state.players :
        /\ state.players[k].id = row.slot
        /\ state.players[k].name = row.player_id

\* C39: in the GameState of a game that startGame starts, whatever joins and
\* departures the waiting room has seen, each occupant of the room is the
\* player whose id is the occupant's slot, under the occupant's name
C39_IdIsSlot ==
    GameStarted(lastOp) =>
        \A row \in RowsOf(clients[lastOp.client].room) : SeatIsId(row)

\* The next game is under way and every client has received every change
NextGameSettled ==
    /\ calls.startNewGame > 0
    /\ game_rooms[Room].status = "playing"
    /\ state.currentRound = 0
    /\ \A c \in DOMAIN channel : channel[c] = <<>>

SeatFollowed(c) ==
    /\ \E row \in RowsOf(Room) :
          row.player_id = PlayerIdOf(c) /\ row.slot = clients[c].mySlot
    /\ \E k \in DOMAIN state.players :
          /\ state.players[k].id = clients[c].mySlot
          /\ state.players[k].name = PlayerIdOf(c)

\* C40: once startNewGame has removed the offline players and renumbered the
\* slots, the mySlot of every client that plays on is the slot of its row
\* and the id of its player in the new GameState
C40_MySlotFollows ==
    NextGameSettled =>
        \A c \in OnlineSeats : clients[c].type = "playing" => SeatFollowed(c)
====
